---- MODULE Spec2Model ----
(***************************************************************************)
(* State-machine model of the load balancer's backend selection and health *)
(* engine: ServerPool (serverPool.js, weighted revision, lines 1-319) and  *)
(* the request-lifecycle glue of worker.js.                                *)
(*                                                                         *)
(* Backend records are JavaScript objects shared by reference between      *)
(* this.servers, this.weightedServerList and the closures of in-flight     *)
(* health probes, so the model keeps a heap of records addressed by        *)
(* references; records no longer referenced are dropped from the heap.     *)
(* gcdWeight, maxWeight and totalWeight are written by calculateWeights    *)
(* but read only by the commented-out GCD variant; they are not modelled.  *)
(***************************************************************************)
EXTENDS Integers, Sequences, FiniteSets, TLC

\* ------------------------------------------------------------------ bounds
MaxServers == 2     \* longest configured server list
MaxWeight == 2      \* largest configured weight
MaxConn == 1        \* cap on a backend's activeConnections
MaxProbes == 2      \* cap on health-check requests in flight at once
MaxStale == 0       \* cap on probes in flight when updateServers replaces the pool
RandomSteps == 2    \* Math.random() takes the values 0/2, 1/2
MaxPicks == 10      \* longest run of successive getNextServer calls
MaxRequests == 2    \* requests a worker handles in one behaviour
MaxShutdowns == 2   \* 'shutdown' messages a worker receives
MaxWorkers == 2     \* config.numWorkers is at most this
MaxExits == 3       \* worker exits in one behaviour of the master
MaxOverlap == 1     \* probes in flight when updateServers replaces the pool

\* ------------------------------------------------------- values and inputs
NoServer == 0                      \* null / undefined server reference
NoSticky == ""                     \* absent (falsy) sticky session id
Undefined == 0 - 1                 \* an unset numeric option
NoTimer == 0                       \* healthCheckIntervalId === null

Hosts == {"localhost"}
Ports == {3001, 3002}
Algorithms == {"ROUND_ROBIN", "RANDOM", "WEIGHTED_ROUND_ROBIN", "WEIGHTED_RANDOM"}
StatusCodes == {200, 500}

\* `${host}:${port}`
ServerId(host, port) == host \o ":" \o ToString(port)

\* sticky cookie values a client may send: every id and one unknown value
StickyIds == {ServerId(h, p) : h \in Hosts, p \in Ports} \cup {"stale:1"}

Range(s) == {s[i] : i \in 1..Len(s)}

\* entries of config.servers: {host, port, weight?}; weights are positive
\* integers, and weight 1 is configured by leaving the weight unset
ConfigEntries == [host : Hosts, port : Ports, weight : {Undefined} \cup (2..MaxWeight)]

DistinctIds(cfg) ==
    \A i, j \in 1..Len(cfg) :
        i # j => ServerId(cfg[i].host, cfg[i].port) # ServerId(cfg[j].host, cfg[j].port)

\* server lists with one entry per backend address
ServerConfigs ==
    {cfg \in UNION {[1..n -> ConfigEntries] : n \in 0..MaxServers} : DistinctIds(cfg)}

\* health-check response bodies, as sequences of characters
NoBody == <<>>
Bodies == {<<"O", "K">>, <<"K", "O">>}

\* config.healthCheck as config.js sets it: expect.statusCode 200, no body check
HealthCheckConfigs ==
    {[enabled |-> e, expect |-> [statusCode |-> 200, bodyIncludes |-> NoBody]] :
        e \in BOOLEAN}

\* -------------------------------------------------------------------- state
VARIABLES
    heap,                   \* reference -> backend record
    servers,                \* this.servers: sequence of references
    weightedServerList,     \* this.weightedServerList: sequence of references
    algorithm,              \* this.algorithm
    currentIndex,           \* this.currentIndex
    healthCheckConfig,      \* this.healthCheckConfig
    healthCheckIntervalId,  \* this.healthCheckIntervalId
    timers,                 \* interval timers active in the event loop
    probes,                 \* health-check requests in flight
    lastOp,                 \* the call or handler that ran last, with its argument
                            \* and result; "other" when they are not recorded
    marked,                 \* history: the ids marked unhealthy that no probe has set
                            \* healthy since (awaiting), and those of them that have
                            \* stayed in the pool since (present)
    requests,               \* worker.js: the requests and the callbacks they await
    picks,                  \* history: ids returned by getNextServer, in call order
    stickySession,          \* worker.js: config.stickySession.enabled
    probed,                 \* history: the health-check step that ran last and
                            \* what the probes of the sweep under way found
    worker,                 \* worker.js: the process, its listeners and its shutdown
    master,                 \* loadBalancer.js: the master and the workers it forked
    console                 \* what the step that ran last wrote to the log and how
                            \* often it rebuilt the weighted list

poolVars == <<heap, servers, weightedServerList, algorithm, currentIndex,
              healthCheckConfig, healthCheckIntervalId, timers, probes>>
sysVars == <<worker, master, console>>
procVars == <<probed, sysVars>>
histVars == <<marked, requests, picks, stickySession, procVars>>
vars == <<poolVars, lastOp, histVars>>

\* ------------------------------------------------------------------ helpers
\* Array.prototype.find over a sequence of references
FindById(h, seq, id) ==
    LET hits == {i \in 1..Len(seq) : h[seq[i]].id = id}
    IN IF hits = {} THEN NoServer
       ELSE seq[CHOOSE i \in hits : \A j \in hits : i <= j]

\* the n smallest references not in `used`, as a sequence
RECURSIVE FreshRefs(_, _)
FreshRefs(n, used) ==
    IF n = 0 THEN <<>>
    ELSE LET r == CHOOSE x \in 1..(Cardinality(used) + 1) : x \notin used
         IN <<r>> \o FreshRefs(n - 1, used \cup {r})

\* The heap after garbage collection, with references renamed: the records of
\* this.servers are 1..Len(srv) in order, the other records still referenced
\* (by a stale weighted list or by a probe closure) follow in their old order.
\* Renaming references changes nothing the program can observe.
Live(srv, wsl, prb) == Range(srv) \cup Range(wsl) \cup {p.server : p \in prb}

Rename(srv, wsl, prb) ==
    LET stale == Live(srv, wsl, prb) \ Range(srv)
    IN [r \in Live(srv, wsl, prb) |->
          IF r \in Range(srv)
          THEN CHOOSE i \in 1..Len(srv) : srv[i] = r
          ELSE Len(srv) + Cardinality({x \in stale : x <= r})]

Collect(h, srv, wsl, prb) ==
    LET live == Live(srv, wsl, prb)
        to == Rename(srv, wsl, prb)
    IN [heap |-> [n \in {to[r] : r \in live} |-> h[CHOOSE r \in live : to[r] = n]],
        servers |-> [i \in 1..Len(srv) |-> to[srv[i]]],
        weightedServerList |-> [i \in 1..Len(wsl) |-> to[wsl[i]]],
        probes |-> {[p EXCEPT !.server = to[p.server]] : p \in prb}]

IsWeighted(alg) == alg \in {"WEIGHTED_ROUND_ROBIN", "WEIGHTED_RANDOM"}

\* --------------------------------------------------------------- ServerPool
GetHealthyServers_NoFilter(h, srv) == srv

GetHealthyServers(h, srv) == SelectSeq(srv, LAMBDA r : h[r].healthy)

GetServerById(h, srv, id) == FindById(h, srv, id)

\* a weighted list that holds every server once
BuildWeightedList_Unweighted(h, srv) == srv

\* a weighted list that holds every server weight times, one round after
\* the other (weights 2, 1 give A, B, A)
BuildWeightedList_Interleaved(h, srv) ==
    LET RECURSIVE Rounds(_)
        Rounds(r) == LET row == SelectSeq(srv, LAMBDA x : h[x].weight >= r)
                     IN IF row = <<>> THEN <<>> ELSE row \o Rounds(r + 1)
    IN Rounds(1)

\* buildWeightedList: every server of this.servers, weight times, in order
RECURSIVE BuildWeightedList(_, _)
BuildWeightedList(h, srv) ==
    IF srv = <<>> THEN <<>>
    ELSE [i \in 1..h[Head(srv)].weight |-> Head(srv)] \o BuildWeightedList(h, Tail(srv))

\* a recalculation that never rebuilds the list
RecalculateWeightsIfNeeded_Never(alg, h, srv, wsl) == wsl

\* recalculateWeightsIfNeeded: the new value of this.weightedServerList
RecalculateWeightsIfNeeded(alg, h, srv, wsl) ==
    IF IsWeighted(alg) THEN BuildWeightedList(h, srv) ELSE wsl

\* an increment that counts the request on every server of the pool
IncrementConnections_All(h, srv, serverId) ==
    [r \in DOMAIN h |->
        IF r \in Range(srv) THEN [h[r] EXCEPT !.activeConnections = @ + 1] ELSE h[r]]

\* an increment that counts a request twice
IncrementConnections_Twice(h, srv, serverId) ==
    LET server == GetServerById(h, srv, serverId)
    IN IF server # NoServer
       THEN [h EXCEPT ![server].activeConnections = @ + 2]
       ELSE h

IncrementConnections(h, srv, serverId) ==
    LET server == GetServerById(h, srv, serverId)
    IN IF server # NoServer
       THEN [h EXCEPT ![server].activeConnections = @ + 1]
       ELSE h

\* a decrement without the guard against underflow
DecrementConnections_NoClamp(h, srv, serverId) ==
    LET server == GetServerById(h, srv, serverId)
    IN IF server # NoServer
       THEN [h EXCEPT ![server].activeConnections = @ - 1]
       ELSE h

\* a decrement that falls back to the first server for an unknown id
DecrementConnections_FirstIfUnknown(h, srv, serverId) ==
    LET found == GetServerById(h, srv, serverId)
        server == IF found = NoServer /\ srv # <<>> THEN srv[1] ELSE found
    IN IF server # NoServer /\ h[server].activeConnections > 0
       THEN [h EXCEPT ![server].activeConnections = @ - 1]
       ELSE h

DecrementConnections(h, srv, serverId) ==
    LET server == GetServerById(h, srv, serverId)
    IN IF server # NoServer /\ h[server].activeConnections > 0
       THEN [h EXCEPT ![server].activeConnections = @ - 1]
       ELSE h

\* the record a constructor or updateServers builds for one config entry
NewRecord(s, healthy, currentWeight, activeConnections) ==
    [host |-> s.host, port |-> s.port,
     id |-> ServerId(s.host, s.port),
     healthy |-> healthy,
     weight |-> IF s.weight = Undefined THEN 1 ELSE s.weight,
     currentWeight |-> currentWeight,
     activeConnections |-> activeConnections]

\* body.includes(expectedBodySubstring)
Includes(body, sub) ==
    \E i \in 0..(Len(body) - Len(sub)) :
        \A j \in 1..Len(sub) : body[i + j] = sub[j]

\* Math.floor(Math.random() * n) for Math.random() = random / RandomSteps
RandomIndex(random, n) == (random * n) \div RandomSteps

\* a switch whose round robin does not store the advanced cursor
ApplyAlgorithm_NoAdvance(alg, healthyServers, healthyWeightedList, idx, random) ==
    CASE alg = "RANDOM" ->
            [chosen |-> healthyServers[RandomIndex(random, Len(healthyServers)) + 1],
             currentIndex |-> idx]
      [] alg = "WEIGHTED_RANDOM" ->
            IF Len(healthyWeightedList) > 0
            THEN [chosen |-> healthyWeightedList[
                                RandomIndex(random, Len(healthyWeightedList)) + 1],
                  currentIndex |-> idx]
            ELSE [chosen |-> NoServer, currentIndex |-> idx]
      [] alg = "WEIGHTED_ROUND_ROBIN" ->
            IF Len(healthyWeightedList) > 0
            THEN LET next == (idx + 1) % Len(healthyWeightedList)
                 IN [chosen |-> healthyWeightedList[next + 1], currentIndex |-> next]
            ELSE [chosen |-> NoServer, currentIndex |-> idx]
      [] OTHER ->
            LET next == (idx + 1) % Len(healthyServers)
            IN [chosen |-> healthyServers[next + 1], currentIndex |-> idx]

\* a switch that stores the advanced cursor without wrapping it
ApplyAlgorithm_NoWrap(alg, healthyServers, healthyWeightedList, idx, random) ==
    CASE alg = "RANDOM" ->
            [chosen |-> healthyServers[RandomIndex(random, Len(healthyServers)) + 1],
             currentIndex |-> idx]
      [] alg = "WEIGHTED_RANDOM" ->
            IF Len(healthyWeightedList) > 0
            THEN [chosen |-> healthyWeightedList[
                                RandomIndex(random, Len(healthyWeightedList)) + 1],
                  currentIndex |-> idx]
            ELSE [chosen |-> NoServer, currentIndex |-> idx]
      [] alg = "WEIGHTED_ROUND_ROBIN" ->
            IF Len(healthyWeightedList) > 0
            THEN LET next == (idx + 1) % Len(healthyWeightedList)
                 IN [chosen |-> healthyWeightedList[next + 1], currentIndex |-> idx + 1]
            ELSE [chosen |-> NoServer, currentIndex |-> idx]
      [] OTHER ->
            LET next == (idx + 1) % Len(healthyServers)
            IN [chosen |-> healthyServers[next + 1], currentIndex |-> idx + 1]

\* the switch of getNextServer: the chosen server and the new currentIndex
ApplyAlgorithm(alg, healthyServers, healthyWeightedList, idx, random) ==
    CASE alg = "RANDOM" ->
            [chosen |-> healthyServers[RandomIndex(random, Len(healthyServers)) + 1],
             currentIndex |-> idx]
      [] alg = "WEIGHTED_RANDOM" ->
            IF Len(healthyWeightedList) > 0
            THEN [chosen |-> healthyWeightedList[
                                RandomIndex(random, Len(healthyWeightedList)) + 1],
                  currentIndex |-> idx]
            ELSE [chosen |-> NoServer, currentIndex |-> idx]
      [] alg = "WEIGHTED_ROUND_ROBIN" ->
            IF Len(healthyWeightedList) > 0
            THEN LET next == (idx + 1) % Len(healthyWeightedList)
                 IN [chosen |-> healthyWeightedList[next + 1], currentIndex |-> next]
            ELSE [chosen |-> NoServer, currentIndex |-> idx]
      [] OTHER ->
            LET next == (idx + 1) % Len(healthyServers)
            IN [chosen |-> healthyServers[next + 1], currentIndex |-> next]

\* the sticky branch of getNextServer: the healthy server the cookie names
StickyTarget_Ignored(h, healthyServers, stickySessionId) == NoServer

\* a sticky branch that pins a missed cookie to the first healthy server
StickyTarget_FirstHealthy(h, healthyServers, stickySessionId) ==
    IF stickySessionId # NoSticky
    THEN IF FindById(h, healthyServers, stickySessionId) # NoServer
         THEN FindById(h, healthyServers, stickySessionId)
         ELSE healthyServers[1]
    ELSE NoServer

StickyTarget(h, healthyServers, stickySessionId) ==
    IF stickySessionId # NoSticky
    THEN FindById(h, healthyServers, stickySessionId)
    ELSE NoServer

\* step 2 of getNextServer: the load balancing algorithm, its fallbacks and
\* the increment of the chosen server
SelectByAlgorithm(h, srv, wsl, alg, idx, random) ==
    LET healthyServers == GetHealthyServers(h, srv)
        healthyWeightedList == SelectSeq(wsl, LAMBDA r : h[r].healthy)
        alg1 == IF IsWeighted(alg) /\ Len(healthyWeightedList) = 0
                THEN "ROUND_ROBIN" ELSE alg
        sel == ApplyAlgorithm(alg1, healthyServers, healthyWeightedList, idx, random)
        chosenServer == IF sel.chosen = NoServer /\ Len(healthyServers) > 0
                        THEN healthyServers[1] ELSE sel.chosen
    IN [ret |-> chosenServer,
        heap |-> IF chosenServer # NoServer
                 THEN IncrementConnections(h, srv, h[chosenServer].id)
                 ELSE h,
        algorithm |-> alg1,
        currentIndex |-> sel.currentIndex]

\* a getNextServer that gives up when the sticky server is not available
GetNextServer_StickyStrict(h, srv, wsl, alg, idx, stickySessionId, random) ==
    LET healthyServers == GetHealthyServers(h, srv)
        none == [ret |-> NoServer, heap |-> h, algorithm |-> alg, currentIndex |-> idx]
        targetServer == StickyTarget(h, healthyServers, stickySessionId)
    IN IF Len(healthyServers) = 0 THEN none
       ELSE IF targetServer # NoServer
       THEN [none EXCEPT !.ret = targetServer,
                         !.heap = IncrementConnections(h, srv, h[targetServer].id)]
       ELSE IF stickySessionId # NoSticky THEN none
       ELSE SelectByAlgorithm(h, srv, wsl, alg, idx, random)

\* getNextServer(stickySessionId): the returned server and the fields it leaves
GetNextServer(h, srv, wsl, alg, idx, stickySessionId, random) ==
    LET healthyServers == GetHealthyServers(h, srv)
        none == [ret |-> NoServer, heap |-> h, algorithm |-> alg, currentIndex |-> idx]
        targetServer == StickyTarget(h, healthyServers, stickySessionId)
    IN IF Len(healthyServers) = 0 THEN none
       ELSE IF targetServer # NoServer
       THEN [none EXCEPT !.ret = targetServer,
                         !.heap = IncrementConnections(h, srv, h[targetServer].id)]
       ELSE SelectByAlgorithm(h, srv, wsl, alg, idx, random)

\* markServerUnhealthy(server, reason)
MarkServerUnhealthy(h, server) == [h EXCEPT ![server].healthy = FALSE]

\* the 'end' handler of a probe response: the record's new healthy flag
\* a probe that finds no backend healthy
ProbeHealthy_Never(hc, statusCode, body) == FALSE

ProbeHealthy_StatusOnly(hc, statusCode, body) ==
    statusCode = (IF hc.expect.statusCode = Undefined THEN 200 ELSE hc.expect.statusCode)

ProbeHealthy(hc, statusCode, body) ==
    LET expectedStatus == IF hc.expect.statusCode = Undefined THEN 200
                          ELSE hc.expect.statusCode
        expectedBodySubstring == hc.expect.bodyIncludes
        isStatusOk == statusCode = expectedStatus
        isBodyOk == expectedBodySubstring = NoBody \/ Includes(body, expectedBodySubstring)
    IN isStatusOk /\ isBodyOk

\* setInterval: a timer handle not in use
NewTimer(tm) == CHOOSE t \in 1..(Cardinality(tm) + 1) : t \notin tm

\* sweeps that still have a probe in flight
SweepsInFlight(prb) == {p.sweep : p \in prb}

NewSweep(prb) ==
    CHOOSE n \in 1..(Cardinality(SweepsInFlight(prb)) + 1) : n \notin SweepsInFlight(prb)

\* checkHealth up to its await: one probe per server of this.servers
CheckHealth(srv, prb) ==
    prb \cup {[server |-> r, sweep |-> NewSweep(prb)] : r \in Range(srv)}

\* a stop that leaves the timer running
StopHealthChecks_Noop(tm, id) == [timers |-> tm, healthCheckIntervalId |-> id]

\* stopHealthChecks: the timers left and the value of healthCheckIntervalId
StopHealthChecks(tm, id) ==
    IF id # NoTimer
    THEN [timers |-> tm \ {id}, healthCheckIntervalId |-> NoTimer]
    ELSE [timers |-> tm, healthCheckIntervalId |-> id]

\* a start that leaves a running timer in place
StartHealthChecks_NoClear(tm, id, srv, prb) ==
    [timers |-> tm \cup {NewTimer(tm)},
     healthCheckIntervalId |-> NewTimer(tm),
     probes |-> CheckHealth(srv, prb)]

\* startHealthChecks: clears a running timer, sets a new one, sweeps at once
StartHealthChecks(tm, id, srv, prb) ==
    LET tm1 == IF id # NoTimer THEN tm \ {id} ELSE tm
        newId == NewTimer(tm1)
    IN [timers |-> tm1 \cup {newId},
        healthCheckIntervalId |-> newId,
        probes |-> CheckHealth(srv, prb)]

\* a lookup that never finds the old record
ExistingServer_NotFound(h, srv, id) == NoServer

\* new Map(this.servers.map(s => [s.id, s])).get(id): the last record with the id
ExistingServer(h, srv, id) ==
    LET hits == {i \in 1..Len(srv) : h[srv[i]].id = id}
    IN IF hits = {} THEN NoServer
       ELSE srv[CHOOSE i \in hits : \A j \in hits : j <= i]

\* the older updateServers: every record starts healthy
UpdatedRecord_AllHealthy(h, srv, sConfig) ==
    LET existing == ExistingServer(h, srv, ServerId(sConfig.host, sConfig.port))
    IN IF existing # NoServer
       THEN NewRecord(sConfig, TRUE, h[existing].currentWeight,
                      h[existing].activeConnections)
       ELSE NewRecord(sConfig, TRUE, 0, 0)

\* the record updateServers builds for the entry sConfig
UpdatedRecord(h, srv, sConfig) ==
    LET existing == ExistingServer(h, srv, ServerId(sConfig.host, sConfig.port))
    IN IF existing # NoServer
       THEN NewRecord(sConfig, h[existing].healthy, h[existing].currentWeight,
                      h[existing].activeConnections)
       ELSE NewRecord(sConfig, TRUE, 0, 0)

\* ------------------------------------------------------------ construction
Op(op, arg, ret) ==
    [op |-> op, arg |-> arg, ret |-> ret, setCookie |-> NoSticky,
     newServersConfig |-> <<>>, code |-> "", headersSent |-> FALSE]

\* new ServerPool(servers, algorithm, healthCheckConfig)
Constructor(cfg, alg, hc) ==
    LET refs == FreshRefs(Len(cfg), {})
        h == [r \in Range(refs) |->
                NewRecord(cfg[CHOOSE i \in 1..Len(cfg) : refs[i] = r], TRUE, 0, 0)]
        started == IF hc.enabled
                   THEN StartHealthChecks({}, NoTimer, refs, {})
                   ELSE [timers |-> {}, healthCheckIntervalId |-> NoTimer, probes |-> {}]
    IN /\ heap = h
       /\ servers = refs
       /\ algorithm = alg
       /\ healthCheckConfig = hc
       /\ currentIndex = 0 - 1
       /\ weightedServerList = IF IsWeighted(alg) THEN BuildWeightedList(h, refs) ELSE <<>>
       /\ timers = started.timers
       /\ healthCheckIntervalId = started.healthCheckIntervalId
       /\ probes = started.probes

\* no health-check step has run
NoProbed ==
    [kind |-> "none", id |-> NoSticky, sweep |-> 0, statusCode |-> 0,
     body |-> NoBody, inPool |-> FALSE, wasHealthy |-> FALSE, hook |-> FALSE,
     clean |-> FALSE, outcomes |-> {}]

\* a worker process that serves, before any shutdown message
NoWorker ==
    [status |-> "running", exitCode |-> 0, servers |-> {}, listening |-> {},
     closing |-> {}, closed |-> {}, awaited |-> {}, timers |-> 0, shutdowns |-> 0]

\* no master process is modelled
NoMaster ==
    [numWorkers |-> 0, metricsEnabled |-> FALSE, workers |-> {}, restarts |-> 0,
     instructions |-> {}, forks |-> 0, exits |-> 0,
     shuttingDown |-> FALSE, status |-> "running"]

\* nothing logged, nothing rebuilt; pending: a flip to unhealthy made by
\* markServerUnhealthy under a weighted algorithm that no rebuild has followed
NoConsole == [logs |-> 0, rebuilds |-> 0, pending |-> FALSE]

NoSys == worker = NoWorker /\ master = NoMaster /\ console = NoConsole

NoProc == probed = NoProbed /\ NoSys

NoHistory ==
    /\ NoProc
    /\ lastOp = Op("other", NoSticky, NoServer)
    /\ marked = [awaiting |-> {}, present |-> {}]
    /\ requests = <<>>
    /\ picks = <<>>
    /\ stickySession = FALSE

Init ==
    /\ \E cfg \in ServerConfigs, alg \in Algorithms, hc \in HealthCheckConfigs :
            Constructor(cfg, alg, hc)
    /\ NoHistory

\* ------------------------------------------------------------------ actions
\* a request selects its backend: getNextServer(stickySessionId)
CallGetNextServer(stickySessionId, random) ==
    LET res == GetNextServer(heap, servers, weightedServerList, algorithm,
                             currentIndex, stickySessionId, random)
    IN /\ heap' = res.heap
       /\ algorithm' = res.algorithm
       /\ currentIndex' = res.currentIndex
       /\ lastOp' = Op("getNextServer", stickySessionId, res.ret)
       /\ UNCHANGED <<servers, weightedServerList, healthCheckConfig,
                      healthCheckIntervalId, timers, probes>>

\* a release: decrementConnections(serverId)
CallDecrementConnections(serverId) ==
    /\ heap' = DecrementConnections(heap, servers, serverId)
    /\ lastOp' = Op("decrementConnections", serverId, NoServer)
    /\ UNCHANGED <<servers, weightedServerList, algorithm, currentIndex,
                   healthCheckConfig, healthCheckIntervalId, timers, probes>>

\* the upstream-error fast path: markServerUnhealthy on a record of the pool
CallMarkServerUnhealthy(server) ==
    /\ heap' = MarkServerUnhealthy(heap, server)
    /\ lastOp' = Op("other", NoSticky, NoServer)
    /\ UNCHANGED <<servers, weightedServerList, algorithm, currentIndex,
                   healthCheckConfig, healthCheckIntervalId, timers, probes>>

\* the interval timer fires: checkHealth()
TimerFires(t) ==
    /\ probes' = CheckHealth(servers, probes)
    /\ weightedServerList' =
          IF servers = <<>>
          THEN RecalculateWeightsIfNeeded(algorithm, heap, servers, weightedServerList)
          ELSE weightedServerList
    /\ lastOp' = Op("other", NoSticky, NoServer)
    /\ UNCHANGED <<heap, servers, algorithm, currentIndex, healthCheckConfig,
                   healthCheckIntervalId, timers>>

\* a sweep that holds its hook for no probe
SweepDone_AnyProbe(sweep, rest) == TRUE

\* a sweep that never runs its hook
SweepDone_Never(sweep, rest) == FALSE

\* await Promise.all(checks): every probe of the sweep has resolved
SweepDone(sweep, rest) == sweep \notin SweepsInFlight(rest)

\* a probe resolves its promise; the sweep's last probe runs the post-sweep
\* recalculateWeightsIfNeeded of checkHealth
ProbeResolved(p, h1, wsl1) ==
    LET rest == probes \ {p}
        wsl2 == IF SweepDone(p.sweep, rest)
                THEN RecalculateWeightsIfNeeded(algorithm, h1, servers, wsl1)
                ELSE wsl1
        kept == Collect(h1, servers, wsl2, rest)
    IN /\ probes' = kept.probes
       /\ weightedServerList' = kept.weightedServerList
       /\ heap' = kept.heap
       /\ lastOp' = Op("other", NoSticky, NoServer)
       /\ UNCHANGED <<servers, algorithm, currentIndex, healthCheckConfig,
                      healthCheckIntervalId, timers>>

\* a probe that looks its backend up by id in the pool of the moment
ProbeEnd_ById(p, statusCode, body) ==
    LET existing == ExistingServer(heap, servers, heap[p.server].id)
        server == IF existing = NoServer THEN p.server ELSE existing
        wasHealthy == heap[server].healthy
        nowHealthy == ProbeHealthy(healthCheckConfig, statusCode, body)
        h1 == [heap EXCEPT ![server].healthy = nowHealthy]
        wsl1 == IF wasHealthy # nowHealthy /\ nowHealthy
                THEN RecalculateWeightsIfNeeded(algorithm, h1, servers, weightedServerList)
                ELSE weightedServerList
    IN ProbeResolved(p, h1, wsl1)

\* checkSingleServer: the response of probe p has ended
ProbeEnd(p, statusCode, body) ==
    LET wasHealthy == heap[p.server].healthy
        nowHealthy == ProbeHealthy(healthCheckConfig, statusCode, body)
        h1 == [heap EXCEPT ![p.server].healthy = nowHealthy]
        wsl1 == IF wasHealthy # nowHealthy /\ nowHealthy
                THEN RecalculateWeightsIfNeeded(algorithm, h1, servers, weightedServerList)
                ELSE weightedServerList
    IN ProbeResolved(p, h1, wsl1)

\* checkSingleServer: the request of probe p failed
ProbeError(p) ==
    ProbeResolved(p, MarkServerUnhealthy(heap, p.server), weightedServerList)

\* checkSingleServer: the request of probe p timed out
ProbeTimeout(p) ==
    ProbeResolved(p, MarkServerUnhealthy(heap, p.server), weightedServerList)

\* updateServers(newServersConfig)
UpdateServers(newServersConfig) ==
    LET stopped == StopHealthChecks(timers, healthCheckIntervalId)
        refs == FreshRefs(Len(newServersConfig), DOMAIN heap)
        h1 == [r \in (DOMAIN heap) \cup Range(refs) |->
                 IF r \in DOMAIN heap THEN heap[r]
                 ELSE UpdatedRecord(heap, servers,
                        newServersConfig[CHOOSE i \in 1..Len(refs) : refs[i] = r])]
        wsl1 == RecalculateWeightsIfNeeded(algorithm, h1, refs, weightedServerList)
        started == IF healthCheckConfig.enabled
                   THEN StartHealthChecks(stopped.timers, stopped.healthCheckIntervalId,
                                          refs, probes)
                   ELSE [timers |-> stopped.timers,
                         healthCheckIntervalId |-> stopped.healthCheckIntervalId,
                         probes |-> probes]
        kept == Collect(h1, refs, wsl1, started.probes)
    IN /\ servers' = kept.servers
       /\ currentIndex' = 0 - 1
       /\ weightedServerList' = kept.weightedServerList
       /\ timers' = started.timers
       /\ healthCheckIntervalId' = started.healthCheckIntervalId
       /\ probes' = kept.probes
       /\ heap' = kept.heap
       /\ lastOp' = [Op("updateServers", NoSticky, NoServer)
                     EXCEPT !.newServersConfig = newServersConfig]
       /\ UNCHANGED <<algorithm, healthCheckConfig>>

\* ----------------------------------------------------- bounding the search
\* the draws of Math.random() the algorithm consumes
RandomDraws == IF algorithm \in {"RANDOM", "WEIGHTED_RANDOM"}
               THEN 0..(RandomSteps - 1) ELSE {0}

\* no backend is at the cap on activeConnections
BelowMaxConn == \A r \in Range(servers) : heap[r].activeConnections < MaxConn

\* a sweep over n servers keeps the probes in flight within the cap
BelowMaxProbes(n) == Cardinality(probes) + n <= MaxProbes

\* updateServers with newServersConfig keeps the probes within the caps
BelowMaxStale(newServersConfig) ==
    /\ Cardinality(probes) <= MaxStale
    /\ healthCheckConfig.enabled => BelowMaxProbes(Len(newServersConfig))

\* --------------------------------------------------------------- the pool
Next ==
    \/ \E stickySessionId \in StickyIds \cup {NoSticky}, random \in RandomDraws :
            /\ BelowMaxConn
            /\ CallGetNextServer(stickySessionId, random)
            /\ UNCHANGED histVars
    \/ \E serverId \in StickyIds :
            CallDecrementConnections(serverId) /\ UNCHANGED histVars
    \/ \E server \in Range(servers) :
            CallMarkServerUnhealthy(server) /\ UNCHANGED histVars
    \/ \E t \in timers :
            BelowMaxProbes(Len(servers)) /\ TimerFires(t) /\ UNCHANGED histVars
    \/ \E p \in probes, statusCode \in StatusCodes, body \in Bodies :
            ProbeEnd(p, statusCode, body) /\ UNCHANGED histVars
    \/ \E p \in probes : ProbeError(p) /\ UNCHANGED histVars
    \/ \E p \in probes : ProbeTimeout(p) /\ UNCHANGED histVars
    \/ \E newServersConfig \in ServerConfigs :
            /\ BelowMaxStale(newServersConfig)
            /\ UpdateServers(newServersConfig)
            /\ UNCHANGED histVars

Spec == Init /\ [][Next]_vars

TypeOK ==
    /\ \A r \in Range(servers) : r \in DOMAIN heap
    /\ \A i \in 1..Len(weightedServerList) : weightedServerList[i] \in DOMAIN heap
    /\ \A p \in probes : p.server \in DOMAIN heap
    /\ currentIndex >= 0 - 1

\* --------------------------------------------------- reading the state
Healthy(r) == heap[r].healthy
PoolIds == {heap[r].id : r \in Range(servers)}
Picked == lastOp.op = "getNextServer"
Released == lastOp.op = "decrementConnections"

\* ------------------------------------------- the pool, with marks recorded
\* markServerUnhealthy was applied to the pool's backend id
MarkRecorded(id) ==
    marked' = [awaiting |-> marked.awaiting \cup {id}, present |-> marked.present \cup {id}]

\* a probe of backend id ended; it set the pool's record healthy or not
ProbeRecorded(p, nowHealthy) ==
    LET id == heap[p.server].id
    IN marked' = IF ~nowHealthy THEN marked
                 ELSE [awaiting |-> marked.awaiting \ {id},
                       present |-> IF p.server \in Range(servers)
                                   THEN marked.present \ {id} ELSE marked.present]

\* a failed probe applies markServerUnhealthy to its record
ProbeFailureRecorded(p) ==
    IF p.server \in Range(servers) THEN MarkRecorded(heap[p.server].id)
    ELSE UNCHANGED marked

\* updateServers dropped the ids that are not in newServersConfig
UpdateRecorded(newServersConfig) ==
    marked' = [marked EXCEPT !.present =
                 @ \cap {ServerId(newServersConfig[i].host, newServersConfig[i].port) :
                            i \in 1..Len(newServersConfig)}]

NextMark ==
    \/ \E stickySessionId \in StickyIds \cup {NoSticky}, random \in RandomDraws :
            /\ BelowMaxConn
            /\ CallGetNextServer(stickySessionId, random)
            /\ UNCHANGED histVars
    \/ \E serverId \in StickyIds :
            CallDecrementConnections(serverId) /\ UNCHANGED histVars
    \/ \E server \in Range(servers) :
            /\ CallMarkServerUnhealthy(server)
            /\ MarkRecorded(heap[server].id)
            /\ UNCHANGED <<requests, picks, stickySession, procVars>>
    \/ \E t \in timers :
            BelowMaxProbes(Len(servers)) /\ TimerFires(t) /\ UNCHANGED histVars
    \/ \E p \in probes, statusCode \in StatusCodes, body \in Bodies :
            /\ ProbeEnd(p, statusCode, body)
            /\ ProbeRecorded(p, ProbeHealthy(healthCheckConfig, statusCode, body))
            /\ UNCHANGED <<requests, picks, stickySession, procVars>>
    \/ \E p \in probes :
            ProbeError(p) /\ ProbeFailureRecorded(p) /\ UNCHANGED <<requests, picks, stickySession, procVars>>
    \/ \E p \in probes :
            ProbeTimeout(p) /\ ProbeFailureRecorded(p) /\ UNCHANGED <<requests, picks, stickySession, procVars>>
    \/ \E newServersConfig \in ServerConfigs :
            /\ BelowMaxStale(newServersConfig)
            /\ UpdateServers(newServersConfig)
            /\ UpdateRecorded(newServersConfig)
            /\ UNCHANGED <<requests, picks, stickySession, procVars>>

SpecMark == Init /\ [][NextMark]_vars

\* C3 as claimed: after markServerUnhealthy is applied to backend b, no
\* getNextServer call returns b until a health probe of b has set its healthy
\* flag back to true, whatever releases or updateServers calls happen in between.
C3_NoPickUntilProbed ==
    (Picked /\ lastOp.ret # NoServer) => heap[lastOp.ret].id \notin marked.awaiting

\* C3: after markServerUnhealthy is applied to a backend b of the pool, no
\* getNextServer call returns b until a health probe of b has set its healthy
\* flag back to true or updateServers has removed b from the pool.
C3_NoPickWhileMarked ==
    (Picked /\ lastOp.ret # NoServer) => heap[lastOp.ret].id \notin marked.present

\* a pick made with a sticky id that names a marked backend returned another one
C3_Witness ==
    /\ Picked /\ lastOp.ret # NoServer
    /\ lastOp.arg \in marked.present
    /\ heap[lastOp.ret].id # lastOp.arg

\* ----------------------------------------------------------------- claims

\* C1: a getNextServer call without sticky id that returns a backend returns
\* one whose healthy flag is true at the moment of return, in every reachable
\* pool state and under every algorithm.
C1_HealthyOnly ==
    (Picked /\ lastOp.arg = NoSticky /\ lastOp.ret # NoServer)
        => /\ lastOp.ret \in Range(servers)
           /\ Healthy(lastOp.ret)

\* a pick without sticky id returned a backend while another one was unhealthy
C1_Witness ==
    /\ Picked /\ lastOp.arg = NoSticky /\ lastOp.ret # NoServer
    /\ \E r \in Range(servers) : ~Healthy(r)

\* C2: getNextServer returns none exactly when the pool has no healthy
\* backend, for every algorithm, sticky id and weight configuration.
C2_NoneIffNoHealthy ==
    Picked => ((lastOp.ret = NoServer) <=> (\A r \in Range(servers) : ~Healthy(r)))

\* a pick whose sticky id names an unhealthy backend returned another backend
C2_Witness ==
    /\ Picked /\ lastOp.ret # NoServer
    /\ \E r \in Range(servers) : heap[r].id = lastOp.arg /\ ~Healthy(r)

\* C6: every backend's activeConnections is an integer >= 0 in every
\* reachable state.
C6_NonNegative ==
    \A r \in DOMAIN heap : heap[r].activeConnections \in Nat

\* a release was called for a backend of the pool whose counter is 0
C6_Witness ==
    /\ Released
    /\ \E r \in Range(servers) : heap[r].id = lastOp.arg /\ heap[r].activeConnections = 0

\* C7: decrementConnections(id) leaves the whole pool unchanged when id names
\* no backend of the pool or the backend's activeConnections is already 0.
C7_ReleaseNoOp ==
    [][\A serverId \in StickyIds :
          (/\ lastOp'.op = "decrementConnections"
           /\ lastOp'.arg = serverId
           /\ \/ GetServerById(heap, servers, serverId) = NoServer
              \/ heap[GetServerById(heap, servers, serverId)].activeConnections = 0)
          => UNCHANGED poolVars]_vars

\* a release arrived for a backend address that is not in the pool while a
\* backend of the pool has a request in flight
C7_Witness ==
    /\ Released
    /\ lastOp.arg \notin PoolIds
    /\ lastOp.arg \in {ServerId(h, p) : h \in Hosts, p \in Ports}
    /\ \E r \in Range(servers) : heap[r].activeConnections > 0

\* C10: for every healthy backend b, getNextServer(b.id) returns b, under
\* every algorithm and for every value of the cursor.
C10_StickyWins ==
    Picked => \A r \in Range(servers) :
                (Healthy(r) /\ heap[r].id = lastOp.arg) => lastOp.ret = r

\* round robin would have moved on to the second backend, the cookie named
\* the first one and the first one was returned
C10_Witness ==
    /\ Picked /\ lastOp.ret # NoServer
    /\ algorithm = "ROUND_ROBIN" /\ currentIndex = 0
    /\ Len(servers) = 2 /\ \A r \in Range(servers) : Healthy(r)
    /\ lastOp.ret = servers[1] /\ heap[servers[1]].id = lastOp.arg

\* ------------------------------------------- rotation from a fresh pool
\* config.servers as config.js ships it
DefaultServers ==
    <<[host |-> "localhost", port |-> 3001, weight |-> 5],
      [host |-> "localhost", port |-> 3002, weight |-> 3],
      [host |-> "localhost", port |-> 3003, weight |-> 1],
      [host |-> "localhost", port |-> 3004, weight |-> 1]>>

\* non-empty server lists: the small ones and the leading entries of the default
RotationConfigs ==
    (ServerConfigs \ {<<>>})
        \cup {SubSeq(DefaultServers, 1, n) : n \in 1..Len(DefaultServers)}

\* a pool freshly constructed for a deterministic rotation, health checks off
InitRR ==
    /\ \E cfg \in RotationConfigs, alg \in {"ROUND_ROBIN", "WEIGHTED_ROUND_ROBIN"} :
            Constructor(cfg, alg, CHOOSE hc \in HealthCheckConfigs : ~hc.enabled)
    /\ NoHistory

\* the id a getNextServer call returned is appended to the history
PickRecorded ==
    picks' = Append(picks, IF lastOp'.ret = NoServer THEN NoSticky
                           ELSE heap'[lastOp'.ret].id)

NextRR ==
    \/ /\ Len(picks) < MaxPicks
       /\ CallGetNextServer(NoSticky, 0)
       /\ PickRecorded
       /\ UNCHANGED <<marked, requests, stickySession, procVars>>
    \/ \E serverId \in PoolIds \cup {"stale:1"} :
            CallDecrementConnections(serverId) /\ UNCHANGED histVars

SpecRR == InitRR /\ [][NextRR]_vars

\* calculateWeights: this.totalWeight
RECURSIVE TotalWeight(_, _)
TotalWeight(h, srv) ==
    IF srv = <<>> THEN 0 ELSE h[Head(srv)].weight + TotalWeight(h, Tail(srv))

\* the number of calls that returned the backend id
Count(seq, id) == Cardinality({i \in 1..Len(seq) : seq[i] = id})

\* C8: under WEIGHTED_ROUND_ROBIN with every backend healthy, any
\* k * sum(weights) successive getNextServer() calls without sticky id, counted
\* from a freshly constructed pool, choose each backend exactly k * weight times.
C8_WeightedShare ==
    (/\ algorithm = "WEIGHTED_ROUND_ROBIN"
     /\ Len(picks) > 0
     /\ Len(picks) % TotalWeight(heap, servers) = 0)
        => \A r \in Range(servers) :
              Count(picks, heap[r].id)
                  = (Len(picks) \div TotalWeight(heap, servers)) * heap[r].weight

\* ten calls on the default pool (weights 5, 3, 1, 1) have been made
C8_Witness ==
    /\ algorithm = "WEIGHTED_ROUND_ROBIN"
    /\ Len(servers) = 4
    /\ Len(picks) = TotalWeight(heap, servers)
    /\ Count(picks, "localhost:3001") = 5

\* C9: under ROUND_ROBIN with n healthy backends, successive getNextServer()
\* calls from a fresh pool return the backends in configured order and then
\* repeat cyclically, whether or not releases are called in between.
C9_CyclicOrder ==
    algorithm = "ROUND_ROBIN"
        => \A i \in 1..Len(picks) :
              picks[i] = heap[servers[((i - 1) % Len(servers)) + 1]].id

\* six calls on three backends returned A,B,C,A,B,C although both requests of
\* the first backend were released before the sixth call
C9_Witness ==
    /\ algorithm = "ROUND_ROBIN" /\ Len(servers) = 3
    /\ Picked /\ Len(picks) = 6
    /\ heap[servers[1]].activeConnections = 0

\* ------------------------------------------------ worker.js: the requests
\* error codes of a failed proxy attempt
ErrorCodes == {"ECONNREFUSED", "ETIMEDOUT", "ECONNRESET"}

\* the codes proxy.on('error') answers with 502
BadGatewayCodes == {"ECONNREFUSED", "ETIMEDOUT", "ENOTFOUND"}

\* the request after requestHandler returned; target is the id of targetServer
\* (NoSticky when getNextServer returned null and the handler answered 503)
NewRequest(target) ==
    [target |-> target,
     writableEnded |-> target = NoSticky,
     finished |-> FALSE,
     closed |-> FALSE,
     failed |-> FALSE,
     releases |-> 0]

\* a handler that writes no status of its own
Response_NoStatus(target, stickySessionId) ==
    [status |-> 0,
     setCookie |-> IF target # NoSticky /\ stickySession /\ stickySessionId # target
                   THEN target ELSE NoSticky]

\* a handler that sets the cookie whenever sticky sessions are enabled
Response_AlwaysCookie(target, stickySessionId) ==
    [status |-> IF target = NoSticky THEN 503 ELSE 0,
     setCookie |-> IF target # NoSticky /\ stickySession THEN target ELSE NoSticky]

\* what requestHandler wrote to res: the status (0 when it is left to the
\* upstream) and the value of the Set-Cookie header (NoSticky when not set)
Response(target, stickySessionId) ==
    [status |-> IF target = NoSticky THEN 503 ELSE 0,
     setCookie |-> IF target # NoSticky /\ stickySession /\ stickySessionId # target
                   THEN target ELSE NoSticky]

\* server lists that leave every weight at its default
UnweightedConfigs ==
    {cfg \in ServerConfigs : \A i \in 1..Len(cfg) : cfg[i].weight = Undefined}

\* a pool of the worker, health checks off; one algorithm that keeps a cursor
\* and one that draws from the weighted list
InitReq ==
    /\ \E cfg \in UnweightedConfigs, alg \in {"ROUND_ROBIN", "WEIGHTED_RANDOM"} :
            Constructor(cfg, alg, CHOOSE hc \in HealthCheckConfigs : ~hc.enabled)
    /\ lastOp = Op("other", NoSticky, NoServer)
    /\ marked = [awaiting |-> {}, present |-> {}]
    /\ requests = <<>>
    /\ picks = <<>>
    /\ stickySession \in BOOLEAN
    /\ NoProc

\* requestHandler(req, res) for a request whose sticky cookie holds `cookie`
RequestHandler(cookie, random) ==
    LET stickySessionId == IF stickySession THEN cookie ELSE NoSticky
        res == GetNextServer(heap, servers, weightedServerList, algorithm,
                             currentIndex, stickySessionId, random)
        target == IF res.ret = NoServer THEN NoSticky ELSE res.heap[res.ret].id
    IN /\ heap' = res.heap
       /\ algorithm' = res.algorithm
       /\ currentIndex' = res.currentIndex
       /\ requests' = Append(requests, NewRequest(target))
       /\ lastOp' = [Op("requestHandler", stickySessionId,
                         Response(target, stickySessionId).status)
                        EXCEPT !.setCookie = Response(target, stickySessionId).setCookie]
       /\ UNCHANGED <<servers, weightedServerList, healthCheckConfig,
                      healthCheckIntervalId, timers, probes, marked, picks, stickySession, procVars>>

\* an event of request i: the new heap, the new request record and the record
\* of what ran
RequestEvent(i, h, request, op) ==
    /\ heap' = h
    /\ requests' = [requests EXCEPT ![i] = request]
    /\ lastOp' = op
    /\ UNCHANGED <<servers, weightedServerList, algorithm, currentIndex,
                   healthCheckConfig, healthCheckIntervalId, timers, probes,
                   marked, picks, stickySession, procVars>>

\* proxy.web has piped the upstream response to the client and ended res
ResEnd(i) ==
    /\ requests[i].target # NoSticky
    /\ ~requests[i].writableEnded /\ ~requests[i].closed /\ ~requests[i].failed
    /\ RequestEvent(i, heap, [requests[i] EXCEPT !.writableEnded = TRUE],
                    Op("resEnd", NoSticky, 0))

\* res.on('finish')
ResFinish(i) ==
    /\ requests[i].target # NoSticky
    /\ requests[i].writableEnded /\ ~requests[i].finished
    /\ RequestEvent(i, DecrementConnections(heap, servers, requests[i].target),
                    [requests[i] EXCEPT !.finished = TRUE, !.releases = @ + 1],
                    Op("finish", NoSticky, 0))

\* req.on('close')
ReqClose(i) ==
    /\ requests[i].target # NoSticky
    /\ ~requests[i].closed
    /\ IF ~requests[i].writableEnded
       THEN RequestEvent(i, DecrementConnections(heap, servers, requests[i].target),
                         [requests[i] EXCEPT !.closed = TRUE, !.releases = @ + 1],
                         Op("close", NoSticky, 0))
       ELSE RequestEvent(i, heap, [requests[i] EXCEPT !.closed = TRUE],
                         Op("close", NoSticky, 0))

\* proxy.on('error'): the heap and the request it leaves, and the status it
\* writes. serverId is `${target.host}:${target.port}`, NoSticky when target
\* has no host or port
ProxyErrorHandler(h, request, serverId, code, headersSent) ==
    LET targetServer == IF serverId = NoSticky THEN NoServer
                        ELSE GetServerById(h, servers, serverId)
        statusCode == IF code \in BadGatewayCodes THEN 502 ELSE 500
    IN [heap |-> IF targetServer # NoServer
                 THEN DecrementConnections(MarkServerUnhealthy(h, targetServer),
                                           servers, serverId)
                 ELSE h,
        request |-> [request EXCEPT
                        !.writableEnded = TRUE,
                        !.releases = IF targetServer # NoServer THEN @ + 1 ELSE @],
        status |-> IF headersSent THEN 0 ELSE statusCode]

\* the proxy attempt of request i failed with err.code = code, before or after
\* the response headers were sent. http-proxy is not part of the sources:
\* whether it emits 'error' besides calling the callback of proxy.web
\* (emitted), and the target it reports (serverId), are inputs. The record of
\* what ran holds the backend of the request, the status written to res (0
\* when none was written), the code and headersSent.
UpstreamError(i, emitted, serverId, code, headersSent) ==
    LET handled == IF emitted
                   THEN ProxyErrorHandler(heap, requests[i], serverId, code, headersSent)
                   ELSE [heap |-> heap, request |-> requests[i], status |-> 0]
    IN /\ requests[i].target # NoSticky
       /\ ~requests[i].writableEnded /\ ~requests[i].closed /\ ~requests[i].failed
       /\ RequestEvent(i, DecrementConnections(handled.heap, servers, requests[i].target),
                       [handled.request EXCEPT !.failed = TRUE, !.releases = @ + 1],
                       [Op("proxyError", requests[i].target, handled.status)
                           EXCEPT !.code = code, !.headersSent = headersSent])

\* process.on('message'): an updateConfig message with a server list
UpdateConfigMessage(newServersConfig) ==
    UpdateServers(newServersConfig) /\ UNCHANGED histVars

NextReq ==
    \/ \E cookie \in StickyIds \cup {NoSticky}, random \in RandomDraws :
            Len(requests) < MaxRequests /\ RequestHandler(cookie, random)
    \/ \E i \in 1..Len(requests) : ResEnd(i)
    \/ \E i \in 1..Len(requests) : ResFinish(i)
    \/ \E i \in 1..Len(requests) : ReqClose(i)
    \/ \E i \in 1..Len(requests), emitted \in BOOLEAN,
          code \in ErrorCodes, headersSent \in BOOLEAN :
            \E serverId \in {requests[i].target, NoSticky} :
                UpstreamError(i, emitted, serverId, code, headersSent)
    \/ \E newServersConfig \in UnweightedConfigs :
            BelowMaxStale(newServersConfig) /\ UpdateConfigMessage(newServersConfig)

SpecReq == InitReq /\ [][NextReq]_vars

\* the request has ended by finish, by client abort or by upstream error
Ended(request) ==
    \/ request.target = NoSticky
    \/ request.finished
    \/ request.closed /\ ~request.writableEnded
    \/ request.failed

RECURSIVE SumConnections(_, _)
SumConnections(h, srv) ==
    IF srv = <<>> THEN 0
    ELSE h[Head(srv)].activeConnections + SumConnections(h, Tail(srv))

\* C4 as claimed: for every request that got a backend, decrementConnections
\* is invoked exactly once over the request's lifetime: never twice, and once
\* when the request has ended by finish, client abort or upstream error.
C4_ExactlyOnce ==
    \A i \in 1..Len(requests) :
        requests[i].target # NoSticky
            => /\ requests[i].releases <= 1
               /\ Ended(requests[i]) => requests[i].releases = 1

StickyMisses(stickySessionId) ==
    \A r \in Range(servers) : heap[r].id = stickySessionId => ~Healthy(r)

\* C11: for a sticky id that names an unhealthy backend or no backend at all,
\* getNextServer(id) under a deterministic algorithm returns the backend that
\* getNextServer() returns from the same state and leaves the same cursor,
\* counters and algorithm.
C11_StickyMissAsAbsent ==
    [][\A stickySessionId \in StickyIds :
          (/\ lastOp'.op = "getNextServer"
           /\ lastOp'.arg = stickySessionId
           /\ StickyMisses(stickySessionId)
           /\ algorithm \in {"ROUND_ROBIN", "WEIGHTED_ROUND_ROBIN"})
          => LET res == GetNextServer(heap, servers, weightedServerList, algorithm,
                                      currentIndex, NoSticky, 0)
             IN /\ lastOp'.ret = res.ret
                /\ heap' = res.heap
                /\ currentIndex' = res.currentIndex
                /\ algorithm' = res.algorithm]_vars

\* a call whose cookie names an unhealthy backend moved the weighted
\* round-robin cursor past the start of the list
C11_Witness ==
    /\ Picked /\ lastOp.ret # NoServer
    /\ algorithm = "WEIGHTED_ROUND_ROBIN" /\ currentIndex > 0
    /\ \E r \in Range(servers) : heap[r].id = lastOp.arg /\ ~Healthy(r)

\* --------------------------------------------------------- reconfiguration
Updated == lastOp.op = "updateServers"

\* C12: after updateServers(newList), every backend whose id is both in the
\* pool before the call and in newList has the healthy flag it had immediately
\* before the call.
C12_HealthPreserved ==
    [][lastOp'.op = "updateServers"
          => \A old \in Range(servers), new \in Range(servers') :
                heap[old].id = heap'[new].id
                    => heap'[new].healthy = heap[old].healthy]_vars

\* updateServers has just run and a backend of the new pool is unhealthy
C12_Witness ==
    /\ Updated
    /\ \E r \in Range(servers) : ~Healthy(r)

\* C13: after updateServers(newList) the pool holds one record per entry of
\* newList, in the given order; a record whose id existed before keeps its
\* activeConnections, a record with a new id is healthy with activeConnections
\* 0, and no record of an id absent from newList remains.
C13_PoolIsNewList ==
    [][lastOp'.op = "updateServers"
          => LET newList == lastOp'.newServersConfig
             IN /\ Len(servers') = Len(newList)
                /\ \A i \in 1..Len(newList) :
                      LET new == heap'[servers'[i]]
                          before == {old \in Range(servers) : heap[old].id = new.id}
                      IN /\ new.id = ServerId(newList[i].host, newList[i].port)
                         /\ new.host = newList[i].host
                         /\ new.port = newList[i].port
                         /\ \A old \in before :
                               new.activeConnections = heap[old].activeConnections
                         /\ before = {} => new.healthy /\ new.activeConnections = 0]_vars

\* updateServers has just installed two backends, one of them with a request
\* in flight from before the call
C13_Witness ==
    /\ Updated
    /\ Len(servers) = 2
    /\ \E r \in Range(servers) : heap[r].activeConnections > 0

\* --------------------------------------------------------- the weighted list
\* seq holds exactly the healthy backends of the pool, each weight times, in
\* the pool's order
HealthyByWeight(seq) ==
    /\ Range(seq) \subseteq Range(servers)
    /\ \A r \in Range(servers) :
          Count(seq, r) = IF Healthy(r) THEN heap[r].weight ELSE 0
    /\ \A i, j \in 1..Len(seq) :
          i < j => \E m, n \in 1..Len(servers) :
                      m <= n /\ servers[m] = seq[i] /\ servers[n] = seq[j]

\* C14 as claimed: under a weighted algorithm the stored weightedServerList
\* holds exactly the currently healthy backends, each weight times, and no
\* unhealthy backend, after every health flip and every updateServers.
C14_StoredListHealthyOnly ==
    IsWeighted(algorithm) => HealthyByWeight(weightedServerList)

\* C14: under a weighted algorithm the list getNextServer selects from,
\* weightedServerList filtered by the live healthy flag, holds exactly the
\* currently healthy backends, each weight times, and no unhealthy backend.
C14_LiveListHealthyOnly ==
    IsWeighted(algorithm)
        => HealthyByWeight(SelectSeq(weightedServerList, LAMBDA r : heap[r].healthy))

\* a weighted pool after a health flip: the stored list still holds a backend
\* that is unhealthy now, next to a healthy one of weight 2
C14_Witness ==
    /\ IsWeighted(algorithm)
    /\ \E r \in Range(weightedServerList) : ~Healthy(r)
    /\ \E r \in Range(servers) : Healthy(r) /\ heap[r].weight = 2

\* ------------------------------------------------------------- the cursor
\* the sequence a rotation selects over: the healthy servers under
\* ROUND_ROBIN, the healthy entries of the weighted list under
\* WEIGHTED_ROUND_ROBIN
SelectionBase ==
    IF algorithm = "WEIGHTED_ROUND_ROBIN"
    THEN SelectSeq(weightedServerList, LAMBDA r : heap[r].healthy)
    ELSE GetHealthyServers(heap, servers)

Rotating == algorithm \in {"ROUND_ROBIN", "WEIGHTED_ROUND_ROBIN"}

\* C15 as claimed, for the two rotations: immediately after any getNextServer
\* call that returns a backend, sticky or not, from any reachable state,
\* 0 <= currentIndex < length of the sequence the selection is made over.
C15_CursorInRangeAfterPick ==
    (Picked /\ lastOp.ret # NoServer /\ Rotating)
        => (0 <= currentIndex /\ currentIndex < Len(SelectionBase))

\* C15: immediately after a getNextServer call that selected its backend by
\* ROUND_ROBIN or WEIGHTED_ROUND_ROBIN rather than by the sticky id,
\* 0 <= currentIndex < length of the sequence the selection was made over.
C15_CursorInRangeAfterRotation ==
    (/\ Picked /\ lastOp.ret # NoServer /\ Rotating
     /\ heap[lastOp.ret].id # lastOp.arg)
        => (0 <= currentIndex /\ currentIndex < Len(SelectionBase))

\* a rotation over a weighted list of three entries, two of them healthy,
\* wrapped the cursor back to 0
C15_Witness ==
    /\ Picked /\ lastOp.ret # NoServer
    /\ heap[lastOp.ret].id # lastOp.arg
    /\ algorithm = "WEIGHTED_ROUND_ROBIN"
    /\ Len(weightedServerList) = 3 /\ Len(SelectionBase) = 2
    /\ currentIndex = 0
    /\ heap[lastOp.ret].activeConnections = 1
    /\ \E r \in Range(servers) : ~Healthy(r)

\* ------------------------------------------- server lists as they arrive
\* every server list the constructor and updateServers accept: neither looks
\* for entries that repeat a backend address
AnyServerConfigs == UNION {[1..n -> ConfigEntries] : n \in 0..MaxServers}

InitAny ==
    /\ \E cfg \in AnyServerConfigs, alg \in Algorithms :
            Constructor(cfg, alg, CHOOSE hc \in HealthCheckConfigs : ~hc.enabled)
    /\ NoHistory

NextAny ==
    \/ \E stickySessionId \in StickyIds \cup {NoSticky}, random \in RandomDraws :
            /\ BelowMaxConn
            /\ CallGetNextServer(stickySessionId, random)
            /\ UNCHANGED histVars
    \/ \E serverId \in StickyIds :
            CallDecrementConnections(serverId) /\ UNCHANGED histVars
    \/ \E server \in Range(servers) :
            CallMarkServerUnhealthy(server) /\ UNCHANGED histVars
    \/ \E newServersConfig \in AnyServerConfigs :
            /\ BelowMaxStale(newServersConfig)
            /\ UpdateServers(newServersConfig)
            /\ UNCHANGED histVars

SpecAny == InitAny /\ [][NextAny]_vars

\* C16 as claimed: in every reachable pool state, after construction from any
\* server list and after any updateServers(newList), no two backend records
\* of the pool have the same id.
C16_UniqueIds ==
    \A i, j \in 1..Len(servers) :
        i # j => heap[servers[i]].id # heap[servers[j]].id

\* ------------------------------------------------ what a pick may change
\* C17: a getNextServer call that returns backend b increases
\* b.activeConnections by exactly 1 and changes no other backend's
\* activeConnections and no healthy flag; decrementConnections changes no
\* healthy flag either.
C17_PickCountsOnlyItsBackend ==
    [][/\ (lastOp'.op = "getNextServer" /\ lastOp'.ret # NoServer)
            => /\ DOMAIN heap' = DOMAIN heap
               /\ \A r \in DOMAIN heap :
                     /\ heap'[r].healthy = heap[r].healthy
                     /\ heap'[r].activeConnections =
                           heap[r].activeConnections + IF r = lastOp'.ret THEN 1 ELSE 0
       /\ lastOp'.op = "decrementConnections"
            => /\ DOMAIN heap' = DOMAIN heap
               /\ \A r \in DOMAIN heap : heap'[r].healthy = heap[r].healthy]_vars

\* a pick from a pool of two returned the healthy backend and counted it,
\* while the other one is unhealthy with no request in flight
C17_Witness ==
    /\ Picked /\ lastOp.ret # NoServer
    /\ Len(servers) = 2
    /\ heap[lastOp.ret].activeConnections = 1
    /\ \E r \in Range(servers) :
          r # lastOp.ret /\ ~Healthy(r) /\ heap[r].activeConnections = 0

\* ------------------------------------------------ no healthy backend: 503
Handled == lastOp.op = "requestHandler"

\* C18: when getNextServer returns none for a request, requestHandler answers
\* 503, registers no finish, close or error hook (no later event of the
\* request does anything) and leaves every backend's activeConnections and
\* healthy flag unchanged.
C18_NoBackendAnswers503 ==
    [][/\ (/\ lastOp'.op = "requestHandler"
           /\ Len(requests') = Len(requests) + 1
           /\ GetNextServer(heap, servers, weightedServerList, algorithm,
                            currentIndex, lastOp'.arg, 0).ret = NoServer)
            => /\ lastOp'.ret = 503
               /\ lastOp'.setCookie = NoSticky
               /\ requests'[Len(requests')].target = NoSticky
               /\ requests'[Len(requests')].releases = 0
               /\ UNCHANGED poolVars
       /\ \A i \in 1..Len(requests) :
             requests[i].target = NoSticky => requests'[i] = requests[i]]_vars

\* a request arrived after the pool's only backend had been marked unhealthy
\* by a failed proxy attempt, and was answered 503
C18_Witness ==
    /\ Handled /\ lastOp.ret = 503
    /\ Len(servers) = 1 /\ ~Healthy(servers[1])
    /\ Len(requests) = 2 /\ requests[1].failed
    /\ requests[2].target = NoSticky

\* the proxy attempt of a request has just failed and the failure was handled
ProxyFailed == lastOp.op = "proxyError"

\* the backend the failed request had been sent to
FailedBackend == GetServerById(heap, servers, lastOp.arg)

\* C19: when forwarding a request to the picked backend b fails with a
\* connection error (ECONNREFUSED), then once the error has been handled b is
\* unhealthy, the request's increment is undone (activeConnections of b is 0
\* when it was the only request), the client was answered 502 if the headers
\* were not yet sent, and the next getNextServer does not return b.
C19_FastPathUnhealth ==
    (ProxyFailed /\ lastOp.code = "ECONNREFUSED" /\ FailedBackend # NoServer)
        => /\ ~Healthy(FailedBackend)
           /\ Len(requests) = 1 => heap[FailedBackend].activeConnections = 0
           /\ ~lastOp.headersSent => lastOp.ret = 502
           /\ \A stickySessionId \in StickyIds \cup {NoSticky}, random \in RandomDraws :
                 GetNextServer(heap, servers, weightedServerList, algorithm,
                               currentIndex, stickySessionId, random).ret # FailedBackend


\* C20: every upstream failure before the response headers are sent, whatever
\* its error code (a proxy timeout and codes other than ECONNREFUSED,
\* ETIMEDOUT and ENOTFOUND included), is answered 502; when the headers were
\* already sent the response is only terminated (no status is written); in
\* both cases the backend of the request is marked unhealthy.
C20_UpstreamFailureTreatment ==
    (ProxyFailed /\ FailedBackend # NoServer)
        => /\ ~lastOp.headersSent => lastOp.ret = 502
           /\ lastOp.headersSent => lastOp.ret = 0
           /\ ~Healthy(FailedBackend)


\* the backend chosen for the request requestHandler has just handled
\* (NoSticky when none was chosen)
ChosenTarget == requests[Len(requests)].target

\* C21: when requestHandler has chosen a backend, it sets the sticky
\* Set-Cookie header, with the chosen backend's id as value, if and only if
\* sticky sessions are enabled and the request's sticky id is absent or
\* differs from the chosen backend's id; otherwise no cookie is set.
C21_CookieIffChanged ==
    [][(/\ lastOp'.op = "requestHandler"
        /\ Len(requests') = Len(requests) + 1
        /\ requests'[Len(requests')].target # NoSticky)
          => LET target == requests'[Len(requests')].target
                 cookie == lastOp'.arg
             IN IF stickySession /\ (cookie = NoSticky \/ cookie # target)
                THEN lastOp'.setCookie = target
                ELSE lastOp'.setCookie = NoSticky]_vars

\* a request whose cookie names an unhealthy backend of the pool was sent to
\* another backend and its response carries a cookie naming that backend
C21_Witness ==
    /\ Handled /\ stickySession
    /\ GetServerById(heap, servers, lastOp.arg) # NoServer
    /\ ~Healthy(GetServerById(heap, servers, lastOp.arg))
    /\ ChosenTarget # NoSticky /\ ChosenTarget # lastOp.arg
    /\ lastOp.setCookie = ChosenTarget


\* ------------------------------------------------------------ the prober
\* health-check configurations with and without a body check
ProbeConfigs ==
    {[enabled |-> e, expect |-> [statusCode |-> 200, bodyIncludes |-> b]] :
        e \in BOOLEAN, b \in {NoBody, <<"O", "K">>}}

\* a sweep has just started: nothing found yet; it runs alone (clean) when no
\* probe of an earlier sweep is in flight
SweepLogged(prb, srv) ==
    [NoProbed EXCEPT !.kind = "sweep", !.sweep = NewSweep(prb),
                     !.hook = (srv = <<>>), !.clean = (prb = {})]

\* probe p has produced its outcome; inPool tells whether the record it
\* probed is still a backend of the pool, wasHealthy the flag it had
ProbeLogged(p, kind, statusCode, body) ==
    probed' = [kind |-> kind, id |-> heap[p.server].id, sweep |-> p.sweep,
               statusCode |-> statusCode, body |-> body,
               inPool |-> p.server \in Range(servers),
               wasHealthy |-> heap[p.server].healthy,
               hook |-> SweepDone(p.sweep, probes \ {p}),
               clean |-> probed.clean,
               outcomes |-> IF probed.clean
                            THEN probed.outcomes \cup
                                   {<<heap[p.server].id, kind, statusCode, body>>}
                            ELSE {}]

\* an event that is no step of the sweep under way
OtherLogged == probed' = [NoProbed EXCEPT !.kind = "other"]

\* startHealthChecks() called on the pool
CallStartHealthChecks ==
    LET started == StartHealthChecks(timers, healthCheckIntervalId, servers, probes)
    IN /\ timers' = started.timers
       /\ healthCheckIntervalId' = started.healthCheckIntervalId
       /\ probes' = started.probes
       /\ lastOp' = Op("startHealthChecks", NoSticky, healthCheckIntervalId)
       /\ UNCHANGED <<heap, servers, weightedServerList, algorithm, currentIndex,
                      healthCheckConfig>>

\* stopHealthChecks() called on the pool
CallStopHealthChecks ==
    LET stopped == StopHealthChecks(timers, healthCheckIntervalId)
    IN /\ timers' = stopped.timers
       /\ healthCheckIntervalId' = stopped.healthCheckIntervalId
       /\ lastOp' = Op("stopHealthChecks", NoSticky, healthCheckIntervalId)
       /\ UNCHANGED <<heap, servers, weightedServerList, algorithm, currentIndex,
                      healthCheckConfig, probes>>

\* a pool with its prober, before any request
InitProbe ==
    /\ \E cfg \in ServerConfigs, alg \in Algorithms, hc \in ProbeConfigs :
            /\ Constructor(cfg, alg, hc)
            /\ probed = IF hc.enabled THEN SweepLogged({}, servers) ELSE NoProbed
    /\ lastOp = Op("other", NoSticky, NoServer)
    /\ marked = [awaiting |-> {}, present |-> {}]
    /\ requests = <<>>
    /\ picks = <<>>
    /\ stickySession = FALSE
    /\ NoSys

\* the 'timeout' event of probe p
TimeoutOf(p) ==
    /\ p \in probes
    /\ ProbeTimeout(p)
    /\ ProbeLogged(p, "timeout", 0, NoBody)
    /\ UNCHANGED <<marked, requests, picks, stickySession, sysVars>>

NextProbe ==
    \/ \E t \in timers :
            /\ BelowMaxProbes(Len(servers))
            /\ TimerFires(t)
            /\ probed' = SweepLogged(probes, servers)
            /\ UNCHANGED <<marked, requests, picks, stickySession, sysVars>>
    \/ \E p \in probes, statusCode \in StatusCodes, body \in Bodies :
            /\ ProbeEnd(p, statusCode, body)
            /\ ProbeLogged(p, "end", statusCode, body)
            /\ UNCHANGED <<marked, requests, picks, stickySession, sysVars>>
    \/ \E p \in probes :
            /\ ProbeError(p)
            /\ ProbeLogged(p, "error", 0, NoBody)
            /\ UNCHANGED <<marked, requests, picks, stickySession, sysVars>>
    \/ \E p \in probes : TimeoutOf(p)
    \/ \E server \in Range(servers) :
            /\ CallMarkServerUnhealthy(server)
            /\ OtherLogged
            /\ UNCHANGED <<marked, requests, picks, stickySession, sysVars>>
    \/ \E newServersConfig \in ServerConfigs :
            /\ BelowMaxStale(newServersConfig)
            /\ UpdateServers(newServersConfig)
            /\ probed' = IF healthCheckConfig.enabled
                         THEN SweepLogged(probes, servers') ELSE [NoProbed EXCEPT !.kind = "other"]
            /\ UNCHANGED <<marked, requests, picks, stickySession, sysVars>>
    \/ /\ BelowMaxProbes(Len(servers))
       /\ CallStartHealthChecks
       /\ probed' = SweepLogged(probes, servers)
       /\ UNCHANGED <<marked, requests, picks, stickySession, sysVars>>
    \/ /\ CallStopHealthChecks
       /\ OtherLogged
       /\ UNCHANGED <<marked, requests, picks, stickySession, sysVars>>

SpecProbe == InitProbe /\ [][NextProbe]_vars

\* the probes of sweep n that are in flight
ProbesOf(n) == {p \in probes : p.sweep = n}

\* a probe of sweep n that has got neither a response nor an error is ended
\* by its 'timeout' event
SweepTimeout(n) == \E p \in ProbesOf(n) : TimeoutOf(p)

\* a pool whose prober runs as config.js sets it up, under one algorithm that
\* keeps no weighted list and one that does
InitSweep ==
    /\ \E cfg \in ServerConfigs, alg \in {"ROUND_ROBIN", "WEIGHTED_RANDOM"} :
            /\ Constructor(cfg, alg, CHOOSE hc \in HealthCheckConfigs : hc.enabled)
            /\ probed = SweepLogged({}, servers)
    /\ lastOp = Op("other", NoSticky, NoServer)
    /\ marked = [awaiting |-> {}, present |-> {}]
    /\ requests = <<>>
    /\ picks = <<>>
    /\ stickySession = FALSE
    /\ NoSys

\* options.timeout of every health-check request: the timeouts of the probes
\* of a sweep do fire
SpecSweep ==
    InitSweep /\ [][NextProbe]_vars /\ \A n \in 1..MaxProbes : WF_vars(SweepTimeout(n))


\* a probe has just produced its outcome
Probed == probed.kind \in {"end", "error", "timeout"}

\* body holds sub as a run of consecutive characters
Contains(body, sub) ==
    \E i \in 1..(Len(body) + 1), j \in 0..Len(body) : SubSeq(body, i, j) = sub

\* the outcome the health-check contract gives a probe: healthy iff it got a
\* response with the expected status and, when a body check is configured,
\* a body that contains the expected substring
HealthyOutcome(kind, statusCode, body) ==
    /\ kind = "end"
    /\ statusCode = healthCheckConfig.expect.statusCode
    /\ \/ healthCheckConfig.expect.bodyIncludes = NoBody
       \/ Contains(body, healthCheckConfig.expect.bodyIncludes)

\* C22: after a probe of backend b completes, b.healthy is true iff the
\* response status equals the expected status and, when a body substring is
\* configured, the body contains it; an error or a timeout leaves b.healthy
\* false. After one full sweep with no other event, every backend's flag
\* equals the outcome of its own probe.
C22_FlagIsProbeOutcome ==
    /\ (Probed /\ probed.inPool) =>
          \A r \in Range(servers) :
              heap[r].id = probed.id =>
                  (Healthy(r) <=> HealthyOutcome(probed.kind, probed.statusCode, probed.body))
    /\ (Probed /\ probed.clean /\ probes = {}) =>
          \A r \in Range(servers) :
              \E o \in probed.outcomes :
                  /\ o[1] = heap[r].id
                  /\ Healthy(r) <=> HealthyOutcome(o[2], o[3], o[4])

\* a sweep over two backends has completed with no other event: one probe got
\* the expected status and body, the other the expected status and a body
\* without the configured substring
C22_Witness ==
    /\ Probed /\ probed.clean /\ probes = {}
    /\ healthCheckConfig.expect.bodyIncludes # NoBody
    /\ Len(servers) = 2
    /\ Healthy(servers[1]) /\ ~Healthy(servers[2])
    /\ \E o \in probed.outcomes :
          o[1] = heap[servers[2]].id /\ o[2] = "end" /\ o[3] = 200


\* C23: a sweep starts exactly one probe for each backend of the pool at sweep
\* start; the post-sweep rebuild runs exactly once per sweep, in the step that
\* resolves the sweep's last probe and in no earlier one; every sweep
\* completes, because a probe that never answers is ended by its timeout.
C23_OneHookAfterAllProbes ==
    /\ [](probed.kind = "sweep" =>
             ProbesOf(probed.sweep) =
                 {[server |-> r, sweep |-> probed.sweep] : r \in Range(servers)})
    /\ [](Probed => (probed.hook <=> ProbesOf(probed.sweep) = {}))
    /\ \A n \in 1..MaxProbes : (ProbesOf(n) # {}) ~> (ProbesOf(n) = {})

\* the second probe of a sweep over two backends has produced its outcome and
\* the post-sweep hook has run
C23_Witness ==
    /\ Probed /\ probed.hook /\ probed.clean
    /\ Len(servers) = 2 /\ Cardinality(probed.outcomes) = 2
    /\ IsWeighted(algorithm)


\* C24: at every time at most one periodic health-check timer is active, and
\* it is the one healthCheckIntervalId holds: startHealthChecks on a running
\* prober replaces the timer, and once stopHealthChecks has returned no timer
\* is left to start a sweep (a sweep starts only with the timer running),
\* whatever probes are still in flight.
C24_AtMostOneTimer ==
    /\ Cardinality(timers) <= 1
    /\ timers = IF healthCheckIntervalId = NoTimer THEN {} ELSE {healthCheckIntervalId}
    /\ probed.kind = "sweep" => healthCheckIntervalId # NoTimer
    /\ lastOp.op = "stopHealthChecks" => timers = {}

\* startHealthChecks was called while a timer was running
C24_WitnessRestart ==
    /\ lastOp.op = "startHealthChecks" /\ lastOp.ret # NoTimer
    /\ Cardinality(timers) = 1

\* stopHealthChecks stopped a running prober while probes were in flight
C24_Witness ==
    /\ lastOp.op = "stopHealthChecks" /\ lastOp.ret # NoTimer
    /\ probes # {}


\* ------------------------------------------- reconfiguring a running pool
\* a pool with health checks on or off, under the two rotating algorithms
InitUpdate ==
    /\ \E cfg \in UnweightedConfigs, alg \in {"ROUND_ROBIN", "WEIGHTED_ROUND_ROBIN"},
          hc \in HealthCheckConfigs :
            Constructor(cfg, alg, hc)
    /\ NoHistory

\* requests pick backends while the pool is reconfigured and its prober is
\* started, stopped and left to time out
NextUpdate ==
    \/ /\ BelowMaxConn
       /\ CallGetNextServer(NoSticky, 0)
       /\ UNCHANGED histVars
    \/ \E newServersConfig \in UnweightedConfigs :
            /\ BelowMaxStale(newServersConfig)
            /\ UpdateServers(newServersConfig)
            /\ UNCHANGED histVars
    \/ /\ BelowMaxProbes(Len(servers))
       /\ CallStartHealthChecks
       /\ UNCHANGED histVars
    \/ CallStopHealthChecks /\ UNCHANGED histVars
    \/ \E t \in timers :
            BelowMaxProbes(Len(servers)) /\ TimerFires(t) /\ UNCHANGED histVars
    \/ \E p \in probes : ProbeTimeout(p) /\ UNCHANGED histVars

SpecUpdate == InitUpdate /\ [][NextUpdate]_vars

\* C25: updateServers stops the prober, resets currentIndex to -1, and on
\* return the prober is running if and only if health checks are enabled: one
\* timer, and a sweep just started with one probe per backend of the new set;
\* with health checks disabled no timer is left, even if one was running.
C25_UpdateRestartsProber ==
    [][lastOp'.op = "updateServers" =>
          /\ currentIndex' = 0 - 1
          /\ healthCheckIntervalId' # NoTimer <=> healthCheckConfig.enabled
          /\ timers' = IF healthCheckConfig.enabled THEN {healthCheckIntervalId'} ELSE {}
          /\ healthCheckConfig.enabled =>
                \E n \in 1..(MaxProbes + 1) :
                    /\ n \notin SweepsInFlight(probes)
                    /\ {p \in probes' : p.sweep = n} =
                          {[server |-> r, sweep |-> n] : r \in Range(servers')}
          /\ ~healthCheckConfig.enabled => Cardinality(probes') = Cardinality(probes)]_vars

\* updateServers ran on a pool whose cursor was in use and whose health
\* checks are enabled: the prober runs and probes both new backends
C25_Witness ==
    /\ Updated /\ healthCheckConfig.enabled
    /\ Len(servers) = 2 /\ Cardinality(probes) = 2
    /\ \E r \in Range(servers) : heap[r].activeConnections > 0


\* ------------------------------------------------ recovery of a backend
\* a pool whose prober runs, under every algorithm
InitRecover ==
    /\ \E cfg \in ServerConfigs, alg \in Algorithms :
            /\ Constructor(cfg, alg, CHOOSE hc \in HealthCheckConfigs : hc.enabled)
            /\ probed = SweepLogged({}, servers)
    /\ lastOp = Op("other", NoSticky, NoServer)
    /\ marked = [awaiting |-> {}, present |-> {}]
    /\ requests = <<>>
    /\ picks = <<>>
    /\ stickySession = FALSE
    /\ NoSys

\* the interval timer fires and checkHealth starts a sweep
Tick ==
    \E t \in timers :
        /\ BelowMaxProbes(Len(servers))
        /\ TimerFires(t)
        /\ probed' = SweepLogged(probes, servers)
        /\ UNCHANGED <<marked, requests, picks, stickySession, sysVars>>

\* probe p produces an outcome: a response, an error or a timeout
OutcomeOf(p) ==
    \/ \E statusCode \in StatusCodes, body \in Bodies :
            /\ ProbeEnd(p, statusCode, body)
            /\ ProbeLogged(p, "end", statusCode, body)
            /\ UNCHANGED <<marked, requests, picks, stickySession, sysVars>>
    \/ /\ ProbeError(p)
       /\ ProbeLogged(p, "error", 0, NoBody)
       /\ UNCHANGED <<marked, requests, picks, stickySession, sysVars>>
    \/ TimeoutOf(p)

SweepOutcome(n) == \E p \in ProbesOf(n) : OutcomeOf(p)

\* the prober keeps running while proxy errors mark backends unhealthy
NextRecover ==
    \/ Tick
    \/ \E p \in probes : OutcomeOf(p)
    \/ \E server \in Range(servers) :
            /\ CallMarkServerUnhealthy(server)
            /\ OtherLogged
            /\ UNCHANGED <<marked, requests, picks, stickySession, sysVars>>

\* setInterval keeps firing, and every probe ends: by its response, its error
\* or its timeout
SpecRecover ==
    /\ InitRecover /\ [][NextRecover]_vars
    /\ WF_vars(Tick)
    /\ \A n \in 1..MaxProbes : WF_vars(SweepOutcome(n))

\* the ids a backend can have
BackendIds == {ServerId(h, p) : h \in Hosts, p \in Ports}

\* a probe of backend id has just failed
FailedProbe(id) ==
    Probed /\ probed.id = id
           /\ ~HealthyOutcome(probed.kind, probed.statusCode, probed.body)

\* the sequence the switch of getNextServer indexes, by the cursor or by
\* Math.random(): the healthy entries of the weighted list under a weighted
\* algorithm (the healthy servers when that is empty), else the healthy servers
LiveSequence ==
    LET healthyWeightedList == SelectSeq(weightedServerList, LAMBDA r : heap[r].healthy)
    IN IF IsWeighted(algorithm) /\ healthyWeightedList # <<>>
       THEN healthyWeightedList
       ELSE GetHealthyServers(heap, servers)

\* getNextServer can return the backend with this id: it holds a position of
\* the sequence the selection is made over
Eligible(id) == \E r \in Range(LiveSequence) : heap[r].id = id

\* C26: if from some point on every probe of a backend succeeds while the
\* prober keeps running, then whenever the backend is unhealthy its healthy
\* flag eventually becomes true and getNextServer can return it again, under
\* every algorithm.
C26_UnhealthyRecovers ==
    \A id \in BackendIds :
        (<>[](~FailedProbe(id)))
            => ((\E r \in Range(servers) : heap[r].id = id /\ ~Healthy(r))
                   ~> (\E r \in Range(servers) :
                          heap[r].id = id /\ Healthy(r) /\ Eligible(id)))

\* a probe has just found an unhealthy backend healthy again, and
\* getNextServer can return it
C26_Witness ==
    /\ Probed /\ probed.kind = "end" /\ ~probed.wasHealthy
    /\ \E r \in Range(servers) : heap[r].id = probed.id /\ Healthy(r)
    /\ Eligible(probed.id)
    /\ Len(servers) = 2


\* --------------------------------------------- backends of weight zero
\* server lists as config.servers and updateServers accept them: a weight may
\* be 0, which neither the constructor nor config.js rejects
ZeroWeightConfigs ==
    {cfg \in UNION {[1..n -> [host : Hosts, port : Ports, weight : {0, Undefined}]] :
                        n \in 0..MaxServers} : DistinctIds(cfg)}

\* getMetrics().loadBalancingAlgorithm
ReportedAlgorithm == algorithm

InitZero ==
    /\ \E cfg \in ZeroWeightConfigs, alg \in {"WEIGHTED_ROUND_ROBIN", "WEIGHTED_RANDOM"} :
            Constructor(cfg, alg, CHOOSE hc \in HealthCheckConfigs : ~hc.enabled)
    /\ NoHistory

NextZero ==
    \/ \E stickySessionId \in StickyIds \cup {NoSticky}, random \in RandomDraws :
            /\ BelowMaxConn
            /\ CallGetNextServer(stickySessionId, random)
            /\ UNCHANGED histVars
    \/ \E serverId \in StickyIds :
            CallDecrementConnections(serverId) /\ UNCHANGED histVars
    \/ \E server \in Range(servers) :
            CallMarkServerUnhealthy(server) /\ UNCHANGED histVars
    \/ \E newServersConfig \in ZeroWeightConfigs :
            /\ BelowMaxStale(newServersConfig)
            /\ UpdateServers(newServersConfig)
            /\ UNCHANGED histVars

SpecZero == InitZero /\ [][NextZero]_vars

\* C27 as claimed: a getNextServer call on a pool configured with a weighted
\* algorithm that finds no healthy entry in the weighted list while healthy
\* backends exist falls back to round robin for that call only; after the
\* call the algorithm field, which getMetrics reports, is still the weighted
\* algorithm.
C27_FallbackIsPerCall ==
    [][(/\ lastOp'.op = "getNextServer"
        /\ IsWeighted(algorithm)
        /\ SelectSeq(weightedServerList, LAMBDA r : heap[r].healthy) = <<>>
        /\ GetHealthyServers(heap, servers) # <<>>)
          => ReportedAlgorithm' = algorithm]_vars


\* ------------------------------------------------ shutdown of a worker
\* the servers a worker may have created: httpServer, httpsServer, metricsServer
Listeners == {"http", "https", "metrics"}

\* a worker that listens on HTTP or HTTPS, with or without the metrics server,
\* over a pool with health checks on or off
InitShutdown ==
    /\ \E cfg \in UnweightedConfigs, hc \in HealthCheckConfigs :
            Constructor(cfg, "ROUND_ROBIN", hc)
    /\ \E created \in SUBSET Listeners :
            /\ created \cap {"http", "https"} # {}
            /\ worker = [NoWorker EXCEPT !.servers = created, !.listening = created]
    /\ master = NoMaster
    /\ console = NoConsole
    /\ probed = NoProbed
    /\ lastOp = Op("other", NoSticky, NoServer)
    /\ marked = [awaiting |-> {}, present |-> {}]
    /\ requests = <<>>
    /\ picks = <<>>
    /\ stickySession = FALSE

Running == worker.status = "running"

\* process.exit(code)
Exit(w, code) == [w EXCEPT !.status = "exited", !.exitCode = code]

\* gracefulShutdown(): stops the prober, closes every server that is
\* listening and the proxy, awaits the closes of this call, sets the 10 s timer
GracefulShutdown ==
    LET stopped == StopHealthChecks(timers, healthCheckIntervalId)
        closePromises == worker.listening \cup {"proxy"}
    IN /\ Running
       /\ timers' = stopped.timers
       /\ healthCheckIntervalId' = stopped.healthCheckIntervalId
       /\ worker' = [worker EXCEPT !.listening = {},
                                   !.closing = @ \cup closePromises,
                                   !.closed = @ \ closePromises,
                                   !.awaited = @ \cup {closePromises},
                                   !.timers = @ + 1,
                                   !.shutdowns = @ + 1]
       /\ lastOp' = Op("gracefulShutdown", NoSticky, NoServer)
       /\ UNCHANGED <<heap, servers, weightedServerList, algorithm, currentIndex,
                      healthCheckConfig, probes, marked, requests, picks,
                      stickySession, probed, master, console>>

\* a server, or the proxy, has closed: the callbacks given to its close() run,
\* and a Promise.all whose closes are all done exits the process with code 0
CloseDone(name) ==
    LET awaited == {closePromises \ {name} : closePromises \in worker.awaited}
        w == [worker EXCEPT !.closing = @ \ {name}, !.closed = @ \cup {name},
                            !.awaited = awaited]
    IN /\ Running
       /\ name \in worker.closing
       /\ worker' = IF {} \in awaited THEN Exit(w, 0) ELSE w
       /\ lastOp' = Op("closeDone", name, NoServer)
       /\ UNCHANGED <<poolVars, marked, requests, picks, stickySession, probed, master, console>>

\* the 10 s timer of a gracefulShutdown call fires
ForceExit ==
    /\ Running
    /\ worker.timers > 0
    /\ worker' = Exit(worker, 1)
    /\ lastOp' = Op("forceExit", NoSticky, NoServer)
    /\ UNCHANGED <<poolVars, marked, requests, picks, stickySession, probed, master, console>>

NextShutdown ==
    \/ worker.shutdowns < MaxShutdowns /\ GracefulShutdown
    \/ \E name \in Listeners \cup {"proxy"} : CloseDone(name)
    \/ ForceExit
    \/ Running /\ Tick
    \/ \E p \in probes : Running /\ TimeoutOf(p)

\* a timer that was set fires unless the process has exited
SpecShutdown == InitShutdown /\ [][NextShutdown]_vars /\ WF_vars(ForceExit)

\* every server the worker created, and the proxy, has closed
AllClosed == worker.servers \cup {"proxy"} \subseteq worker.closed

\* C28 as claimed: after a worker receives 'shutdown' the prober is stopped
\* and no listener accepts; the worker eventually exits, with code 0 only if
\* all its listeners and the proxy have closed, with code 1 only if the timer
\* fired before they had; it does not keep running past the timer.
C28_ShutdownExits ==
    /\ []((worker.shutdowns > 0 /\ Running) =>
             /\ timers = {} /\ healthCheckIntervalId = NoTimer
             /\ worker.listening = {})
    /\ []((~Running /\ worker.exitCode = 0) => AllClosed)
    /\ []((~Running /\ worker.exitCode = 1) => (~AllClosed /\ lastOp.op = "forceExit"))
    /\ (worker.shutdowns > 0) ~> ~Running


\* ------------------------------------------------------------ the master
\* forkWorker(id): the new worker enters the map; worker 0 is to be told,
\* after a delay, to start the metrics server
ForkWorker(m, id) ==
    LET pid == m.forks + 1
    IN [m EXCEPT !.workers = @ \cup {[pid |-> pid, id |-> id, metrics |-> FALSE,
                                              shutdown |-> FALSE]},
                 !.instructions = IF id = 0 /\ m.metricsEnabled THEN @ \cup {pid} ELSE @,
                 !.forks = @ + 1]

\* the start-up loop: forkWorker(i) for i = 0 .. numCPUs - 1
RECURSIVE ForkAll(_, _)
ForkAll(m, i) == IF i >= m.numWorkers THEN m ELSE ForkAll(ForkWorker(m, i), i + 1)

\* an exit handler that schedules no restart
OnExit_NoRestart(m, w) == [m EXCEPT !.workers = @ \ {w}, !.exits = @ + 1]

\* cluster.on('exit'): the worker leaves the map and a restart is scheduled
OnExit(m, w) ==
    [m EXCEPT !.workers = @ \ {w}, !.restarts = @ + 1, !.exits = @ + 1]

\* the master after its start-up, with metrics enabled or not; it has no pool
InitMaster ==
    /\ \E n \in 1..MaxWorkers, enabled \in BOOLEAN :
            master = ForkAll([NoMaster EXCEPT !.numWorkers = n,
                                              !.metricsEnabled = enabled], 0)
    /\ worker = NoWorker
    /\ console = NoConsole
    /\ probed = NoProbed
    /\ Constructor(<<>>, "ROUND_ROBIN", CHOOSE hc \in HealthCheckConfigs : ~hc.enabled)
    /\ lastOp = Op("other", NoSticky, NoServer)
    /\ marked = [awaiting |-> {}, present |-> {}]
    /\ requests = <<>>
    /\ picks = <<>>
    /\ stickySession = FALSE

\* a step of the master leaves the worker-side state alone
MasterStep(op) ==
    /\ lastOp' = Op(op, NoSticky, NoServer)
    /\ UNCHANGED <<poolVars, marked, requests, picks, stickySession, probed, worker, console>>

\* worker w exits, for whatever reason, and the 'exit' event reaches the master
WorkerExit(w) ==
    /\ w \in master.workers
    /\ master.exits < MaxExits
    /\ master' = OnExit(master, w)
    /\ MasterStep("exit")

\* the restart timer of an exit fires: forkWorker(workers.size)
RestartTimer ==
    /\ master.restarts > 0
    /\ master' = ForkWorker([master EXCEPT !.restarts = @ - 1],
                            Cardinality(master.workers))
    /\ MasterStep("restart")

\* the timer set for worker 0 fires: worker.send({type: 'startMetrics'}),
\* which reaches the worker if it is still alive
InstructTimer(pid) ==
    /\ pid \in master.instructions
    /\ master' = [master EXCEPT
                     !.instructions = @ \ {pid},
                     !.workers = {IF w.pid = pid THEN [w EXCEPT !.metrics = TRUE] ELSE w :
                                     w \in @}]
    /\ MasterStep("startMetrics")

NextMaster ==
    \/ \E w \in master.workers : WorkerExit(w)
    \/ RestartTimer
    \/ \E pid \in master.instructions : InstructTimer(pid)

\* the timers the master sets do fire
SpecMaster == InitMaster /\ [][NextMaster]_vars /\ WF_vars(RestartTimer)

LiveWorkers == Cardinality(master.workers)

\* C29: while the master is not shutting down, every worker exit is followed
\* by the fork of one replacement, so the number of live workers never
\* exceeds numWorkers and, once the exits stop, returns to numWorkers.
C29_WorkersReplaced ==
    /\ [](LiveWorkers <= master.numWorkers)
    /\ [](LiveWorkers + master.restarts = master.numWorkers)
    /\ \A k \in 0..MaxExits :
          (master.exits = k) ~> (master.forks >= master.numWorkers + k)
    /\ <>[](LiveWorkers = master.numWorkers)

\* both workers of a master have exited and both have been replaced
C29_Witness ==
    /\ master.numWorkers = 2 /\ master.exits >= 2
    /\ LiveWorkers = 2 /\ master.forks = 2 + master.exits

\* the live workers that were told, or are about to be told, to start the
\* metrics server
MetricsWorkers ==
    {w \in master.workers : w.metrics \/ w.pid \in master.instructions}

\* C30 as claimed: when metrics are enabled and at least one worker is alive,
\* exactly one live worker has been instructed to run the metrics listener,
\* also after crashes and restarts.  The delays of the code are granted: a
\* worker about to be instructed counts, and nothing is asked while the
\* replacement of an exited worker is still to be forked.
C30_OneMetricsWorker ==
    (master.metricsEnabled /\ master.workers # {} /\ master.restarts = 0)
        => Cardinality(MetricsWorkers) = 1


\* ------------------------------------------------------- the sticky cookie
\* config.stickySession.cookieName and .cookieOptions
CookieName == "lb_sticky_session"

CookieOptions == [httpOnly |-> TRUE, path |-> "/", maxAge |-> 3600 * 1000]

\* cookie.serialize(name, value, options): the attributes of the header it
\* writes; the maxAge option is taken as a number of seconds and written,
\* rounded down, as Max-Age
Serialize(name, value, options) ==
    [name |-> name, value |-> value,
     MaxAge |-> options.maxAge \div 1,
     HttpOnly |-> options.httpOnly,
     Path |-> options.path]

\* the Set-Cookie header of the response the handler has just prepared
SetCookieHeader == Serialize(CookieName, lastOp.setCookie, CookieOptions)

\* C31 as claimed: the sticky cookie emitted by requestHandler carries a
\* Max-Age of 3600 seconds, the serializer reading maxAge as seconds.
C31_MaxAgeOneHour ==
    (lastOp.op = "requestHandler" /\ lastOp.setCookie # NoSticky)
        => SetCookieHeader.MaxAge = 3600


\* -------------------------------------------- the weighted rotation order
\* the position, in the configured order, of the backend that the call
\* number i (from 1) of the contiguous schedule returns: the backend whose
\* run of `weight` calls holds call i of the cycle
ScheduledPosition(h, srv, i) ==
    LET k == (i - 1) % TotalWeight(h, srv)
    IN CHOOSE j \in 1..Len(srv) :
           /\ TotalWeight(h, SubSeq(srv, 1, j - 1)) <= k
           /\ k < TotalWeight(h, SubSeq(srv, 1, j))

\* C32: under WEIGHTED_ROUND_ROBIN with all backends healthy, the picks from
\* a fresh pool follow the configured order with each backend repeated weight
\* times contiguously (weights 2, 1 give A, A, B, A, A, B, ...), whether or
\* not releases are called in between.
C32_ContiguousSchedule ==
    algorithm = "WEIGHTED_ROUND_ROBIN"
        => \A i \in 1..Len(picks) :
              picks[i] = heap[servers[ScheduledPosition(heap, servers, i)]].id

\* two backends of weights 2 and 1 were picked A, A, B, A, A, B
C32_Witness ==
    /\ algorithm = "WEIGHTED_ROUND_ROBIN" /\ Len(servers) = 2
    /\ heap[servers[1]].weight = 2 /\ heap[servers[2]].weight = 1
    /\ Len(picks) = 6
    /\ picks[1] = picks[2] /\ picks[3] # picks[2]
    /\ picks[4] = picks[1] /\ picks[5] = picks[1] /\ picks[6] = picks[3]


\* ------------------------------------------- status-change log and rebuilds
\* a status check that writes its log line whatever the flag was
StatusChangeLogs_Always(wasHealthy, healthy) == 1

\* if (wasHealthy !== server.healthy) console.log(... changed status ...):
\* the number of lines written
StatusChangeLogs(wasHealthy, healthy) == IF wasHealthy # healthy THEN 1 ELSE 0

\* recalculateWeightsIfNeeded called `calls` times: the number of times
\* buildWeightedList ran
RebuildCount(alg, calls) == IF IsWeighted(alg) THEN calls ELSE 0

\* what a step logged and rebuilt; flip: markServerUnhealthy changed a flag
Logged(logs, rebuilds, flip) ==
    console' = [logs |-> logs, rebuilds |-> rebuilds,
                pending |-> IF rebuilds > 0 THEN FALSE
                            ELSE console.pending \/ (flip /\ IsWeighted(algorithm))]

\* pools of every algorithm, with the prober running or disabled
InitLog ==
    /\ \E cfg \in ServerConfigs, alg \in Algorithms, hc \in HealthCheckConfigs :
            /\ Constructor(cfg, alg, hc)
            /\ probed = IF hc.enabled THEN SweepLogged({}, servers) ELSE NoProbed
    /\ lastOp = Op("other", NoSticky, NoServer)
    /\ marked = [awaiting |-> {}, present |-> {}]
    /\ requests = <<>>
    /\ picks = <<>>
    /\ stickySession = FALSE
    /\ NoSys

\* markServerUnhealthy(server, reason), called from the proxy error path
MarkStep(server) ==
    /\ heap' = MarkServerUnhealthy(heap, server)
    /\ lastOp' = Op("markServerUnhealthy", heap[server].id, server)
    /\ Logged(StatusChangeLogs(heap[server].healthy, FALSE), 0, heap[server].healthy)
    /\ OtherLogged
    /\ UNCHANGED <<servers, weightedServerList, algorithm, currentIndex,
                   healthCheckConfig, healthCheckIntervalId, timers, probes,
                   marked, requests, picks, stickySession, worker, master>>

\* checkHealth from the interval timer; with no server its hook runs at once
LogTick ==
    \E t \in timers :
        /\ BelowMaxProbes(Len(servers))
        /\ TimerFires(t)
        /\ probed' = SweepLogged(probes, servers)
        /\ Logged(0, RebuildCount(algorithm, IF servers = <<>> THEN 1 ELSE 0), FALSE)
        /\ UNCHANGED <<marked, requests, picks, stickySession, worker, master>>

\* the calls of recalculateWeightsIfNeeded by the post-sweep hook when probe
\* p resolves
HookCalls(p) == IF SweepDone(p.sweep, probes \ {p}) THEN 1 ELSE 0

\* probe p produces its outcome: a response, an error or a timeout
LogOutcome(p) ==
    \/ \E statusCode \in StatusCodes, body \in Bodies :
          LET wasHealthy == heap[p.server].healthy
              healthy == ProbeHealthy(healthCheckConfig, statusCode, body)
          IN /\ ProbeEnd(p, statusCode, body)
             /\ ProbeLogged(p, "end", statusCode, body)
             /\ Logged(StatusChangeLogs(wasHealthy, healthy),
                       RebuildCount(algorithm,
                                    (IF wasHealthy # healthy /\ healthy THEN 1 ELSE 0)
                                        + HookCalls(p)),
                       FALSE)
             /\ UNCHANGED <<marked, requests, picks, stickySession, worker, master>>
    \/ /\ ProbeError(p)
       /\ ProbeLogged(p, "error", 0, NoBody)
       /\ Logged(StatusChangeLogs(heap[p.server].healthy, FALSE),
                 RebuildCount(algorithm, HookCalls(p)), heap[p.server].healthy)
       /\ UNCHANGED <<marked, requests, picks, stickySession, worker, master>>
    \/ /\ ProbeTimeout(p)
       /\ ProbeLogged(p, "timeout", 0, NoBody)
       /\ Logged(StatusChangeLogs(heap[p.server].healthy, FALSE),
                 RebuildCount(algorithm, HookCalls(p)), heap[p.server].healthy)
       /\ UNCHANGED <<marked, requests, picks, stickySession, worker, master>>

LogSweepOutcome(n) == \E p \in ProbesOf(n) : LogOutcome(p)

NextLog ==
    \/ LogTick
    \/ \E p \in probes : LogOutcome(p)
    \/ \E server \in Range(servers) : MarkStep(server)

\* setInterval keeps firing and every probe ends
SpecLog ==
    /\ InitLog /\ [][NextLog]_vars
    /\ WF_vars(LogTick)
    /\ \A n \in 1..MaxProbes : WF_vars(LogSweepOutcome(n))

\* the step was a markServerUnhealthy call from the proxy error path
MarkedStep == lastOp'.op = "markServerUnhealthy" /\ vars' # vars

\* the backends whose healthy flag the step changed
Flipped == {r \in (DOMAIN heap) \cap (DOMAIN heap') : heap[r].healthy # heap'[r].healthy}

\* C33 as claimed: markServerUnhealthy on an unhealthy backend changes no
\* state and logs nothing; a status-change log entry is produced exactly when
\* a healthy flag changes value; and under a weighted algorithm each
\* true-to-false flip by markServerUnhealthy triggers a rebuild of the
\* weighted list.
C33_FlipRebuilds ==
    /\ [][(lastOp'.op = "markServerUnhealthy" /\ ~heap[lastOp'.ret].healthy)
            => (poolVars' = poolVars /\ console'.logs = 0)]_vars
    /\ [][console'.logs = Cardinality(Flipped)]_vars
    /\ [][(MarkedStep /\ heap[lastOp'.ret].healthy /\ IsWeighted(algorithm))
            => console'.rebuilds > 0]_vars

\* C33: markServerUnhealthy on an unhealthy backend changes no state and logs
\* nothing; a status-change log entry is produced exactly when a healthy flag
\* changes value (by markServerUnhealthy or by a probe result);
\* markServerUnhealthy itself never rebuilds the weighted list, and under a
\* weighted algorithm a flip it made is followed by a rebuild (the prober's
\* post-sweep hook) as long as the prober runs.
C33_FlipLoggedRebuildDeferred ==
    /\ [][(lastOp'.op = "markServerUnhealthy" /\ ~heap[lastOp'.ret].healthy)
            => (poolVars' = poolVars /\ console'.logs = 0 /\ console'.rebuilds = 0)]_vars
    /\ [][console'.logs = Cardinality(Flipped)]_vars
    /\ [][MarkedStep => (console'.rebuilds = 0 /\ weightedServerList' = weightedServerList)]_vars
    /\ (console.pending /\ healthCheckConfig.enabled) ~> ~console.pending

\* under a weighted algorithm a backend was marked unhealthy, which was logged
\* and no rebuild has followed yet, and a second call has just run on the
\* same backend and logged nothing
C33_Witness ==
    /\ lastOp.op = "markServerUnhealthy"
    /\ ~heap[lastOp.ret].healthy
    /\ console.logs = 0 /\ console.pending
    /\ IsWeighted(algorithm)
    /\ Len(servers) = 2


\* ------------------------------------ probes overtaken by updateServers
\* updateServers while probes of the replaced pool are still in flight
OverlappingUpdate(newServersConfig) ==
    /\ Cardinality(probes) <= MaxOverlap
    /\ BelowMaxProbes(Len(newServersConfig))
    /\ UpdateServers(newServersConfig)
    /\ probed' = SweepLogged(probes, servers')
    /\ UNCHANGED <<marked, requests, picks, stickySession, sysVars>>

NextStale ==
    \/ Tick
    \/ \E p \in probes : OutcomeOf(p)
    \/ \E newServersConfig \in ServerConfigs : OverlappingUpdate(newServersConfig)

SpecStale == InitRecover /\ [][NextStale]_vars

\* the healthy flags of the pool, in the order of this.servers
PoolHealth(h, srv) == [i \in 1..Len(srv) |-> h[srv[i]].healthy]

\* the step was the outcome of a probe whose record updateServers had replaced
StaleOutcome == probed'.kind \in {"end", "error", "timeout"} /\ ~probed'.inPool

\* C34: a probe started before an updateServers call and completing after it
\* changes the healthy flag of no record of the new pool; the flags of the
\* pool keep the values copied at replacement until the outcome of a probe
\* started on the new records.
C34_StaleProbeHarmless ==
    /\ [][StaleOutcome
            => (servers' = servers
                /\ PoolHealth(heap', servers') = PoolHealth(heap, servers))]_vars
    /\ [][(lastOp'.op # "updateServers"
            /\ PoolHealth(heap', servers') # PoolHealth(heap, servers))
            => (probed'.kind \in {"end", "error", "timeout"} /\ probed'.inPool)]_vars

\* a probe overtaken by updateServers has just found its backend unhealthy,
\* and the record that replaced the one it probed is still healthy
C34_Witness ==
    /\ Probed /\ ~probed.inPool
    /\ ~HealthyOutcome(probed.kind, probed.statusCode, probed.body)
    /\ \E r \in Range(servers) : heap[r].id = probed.id /\ heap[r].healthy


\* ------------------------------------------------- the master's shutdown
\* shutdownMaster(signal): 'shutdown' is sent to every worker of the map and
\* the timer of the master's own exit is set
ShutdownMaster ==
    /\ master.status = "running"
    /\ master' = [master EXCEPT
                     !.workers = {[w EXCEPT !.shutdown = TRUE] : w \in @},
                     !.shuttingDown = TRUE]
    /\ MasterStep("shutdownMaster")

\* the timer set by shutdownMaster fires: process.exit(0)
MasterExit ==
    /\ master.status = "running"
    /\ master.shuttingDown
    /\ master' = [master EXCEPT !.status = "exited"]
    /\ MasterStep("exit0")

\* the master with its signal handlers; its handlers and timers run as long
\* as the process does
NextMasterShutdown ==
    \/ master.status = "running" /\ NextMaster
    \/ ShutdownMaster
    \/ MasterExit

SpecMasterShutdown == InitMaster /\ [][NextMasterShutdown]_vars

\* C35 as claimed: once the master has received SIGINT or SIGTERM and sent
\* 'shutdown' to its workers, no new worker is forked: a worker exiting
\* during the shutdown window is not replaced.
C35_NoForkAfterSignal ==
    [][master.shuttingDown => master'.forks = master.forks]_vars


====
